---- MODULE Spec2Model ----
(***************************************************************************)
(* A model of arcade-rs: the frame loop (phi::spawn), the input tracker    *)
(* (phi::Events), the rectangle geometry (phi::data::Rectangle) and the    *)
(* views (MainMenuView, GameView).                                         *)
(*                                                                         *)
(* Units.  f64 lengths are modelled as integers in 1/1000 pixel (mpx) and  *)
(* f64 times as integers in milliseconds, so that a speed in px/s is the   *)
(* same number in mpx/ms.  `elapsed` (seconds, dt as f64 / 1000.0) is      *)
(* therefore represented by the number of milliseconds dt.                 *)
(***************************************************************************)
EXTENDS Integers, Sequences, FiniteSets, TLC

VARIABLES
    events,         \* phi.events: the snapshot `now` and the held flags
    win,            \* renderer.output_size(): the window's size, in pixels
    poll,           \* observation: the last pump's queue and the Events before it
    presses,        \* observation: per key, presses (not-held -> held) so far
    observed,       \* observation: per key, frames whose snapshot was Some(true)
    streak,         \* observation: per key, polls since a lone key-down (0: none)
    npolls,         \* observation: number of pumps so far
    current_view,   \* spawn's current_view: the active view
    frame,          \* observation: the last render's inputs and result
    nframes,        \* observation: number of frames rendered so far
    clock,          \* timer.ticks(): milliseconds since SDL was initialised
    before,         \* spawn's `before`: the ticks of the last accepted frame
    meter,          \* spawn's `last_second` and `fps`
    status,         \* where spawn is: "running", "quit" (left the loop), "panic"
    view_id,        \* observation: which Box<View> current_view is (1, 2, ...)
    iter,           \* observation: the last iteration of spawn's loop
    call,           \* observation: the last call of a Rectangle method on its own
    destroyed       \* stdout: lines "The player's ship has been destroyed!" printed

vars == <<events, win, poll, presses, observed, streak, npolls,
          current_view, frame, nframes, clock, before, meter, status, view_id, iter,
          call, destroyed>>

eventObs == <<poll, presses, observed, streak, npolls>>
viewVars == <<current_view, frame, nframes, destroyed>>
loopVars == <<clock, before, meter, status, view_id, iter>>

-----------------------------------------------------------------------------
(* Option<T> *)

None == [some |-> FALSE]
Some(v) == [some |-> TRUE, value |-> v]

-----------------------------------------------------------------------------
(* phi::Events (struct_events!) *)

\* The key aliases of struct_events!.  The invocation in phi/mod.rs lists the
\* first six; the views also read key_enter, key_1, key_2 and key_3, which the
\* same macro generates in the same way.
Keys ==
    {"key_escape", "key_up", "key_down", "key_left", "key_right", "key_space",
     "key_enter", "key_1", "key_2", "key_3"}

\* Option<bool> of a snapshot entry.
SnapNone == "None"
SnapTrue == "Some(true)"
SnapFalse == "Some(false)"

ImmediateEvents_new ==
    [resize |-> None, key |-> [k \in Keys |-> SnapNone], quit |-> FALSE]

Events_new ==
    [now |-> ImmediateEvents_new, held |-> [k \in Keys |-> FALSE]]

\* Raw events of the pump.  A key outside Keys, and any other event, is "Other".
KeyDown(k) == [type |-> "KeyDown", key |-> k]
KeyUp(k) == [type |-> "KeyUp", key |-> k]
QuitEvent == [type |-> "Quit", key |-> "-"]
ResizedEvent == [type |-> "Resized", key |-> "-"]
OtherEvent == [type |-> "Other", key |-> "-"]

\* Variant of OnKeyDown: the `if !self.$k_alias` test is dropped.
OnKeyDown_NoHeldTest(ev, k) ==
    [ev EXCEPT !.now.key[k] = SnapTrue,
               !.held[k] = TRUE]

\* KeyDown arm of the match: an edge only when the key was not held.
OnKeyDown(ev, k) ==
    [ev EXCEPT !.now.key[k] = IF ~ev.held[k] THEN SnapTrue ELSE @,
               !.held[k] = TRUE]

\* Variant of OnKeyUp: the release clears the held flag and leaves the snapshot.
OnKeyUp_KeepsSnapshot(ev, k) ==
    [ev EXCEPT !.held[k] = FALSE]

\* KeyUp arm of the match.
OnKeyUp(ev, k) ==
    [ev EXCEPT !.now.key[k] = SnapFalse,
               !.held[k] = FALSE]

\* One turn of the `for event in self.pump.poll_iter()` loop.
ProcessEvent(ev, e, size) ==
    CASE e.type = "Resized" -> [ev EXCEPT !.now.resize = Some(size)]
      [] e.type = "KeyDown" /\ e.key \in Keys -> OnKeyDown(ev, e.key)
      [] e.type = "KeyUp" /\ e.key \in Keys -> OnKeyUp(ev, e.key)
      [] e.type = "Quit" -> [ev EXCEPT !.now.quit = TRUE]
      [] OTHER -> ev

\* The Events values after the reset and after each event of the poll:
\* PumpTrace(...)[1] is the state after `self.now = ImmediateEvents::new()`,
\* PumpTrace(...)[i + 1] the state after the i-th event.
RECURSIVE PumpTrace(_, _, _)
PumpTrace(ev, evs, size) ==
    IF evs = <<>> THEN <<ev>>
    ELSE <<ev>> \o PumpTrace(ProcessEvent(ev, Head(evs), size), Tail(evs), size)

\* Variant of pump: the snapshot is not rebuilt at the start of the poll.
pump_NoReset(ev, evs, size) ==
    LET trace == PumpTrace(ev, evs, size)
    IN trace[Len(trace)]

\* Events::pump
pump(ev, evs, size) ==
    LET start == [ev EXCEPT !.now = ImmediateEvents_new]
        trace == PumpTrace(start, evs, size)
    IN trace[Len(trace)]

-----------------------------------------------------------------------------
(* phi::data::Rectangle *)

Rectangle(x, y, w, h) == [x |-> x, y |-> y, w |-> w, h |-> h]

\* No Rectangle method has been called on its own.
NoCall == [fn |-> "none"]

\* Variant of move_inside: a rectangle larger than its parent is clamped too.
move_inside_NoSizeTest(self, parent) ==
    Some(Rectangle(
            IF self.x < parent.x THEN parent.x
            ELSE IF self.x + self.w >= parent.x + parent.w
                 THEN parent.x + parent.w - self.w
            ELSE self.x,
            IF self.y < parent.y THEN parent.y
            ELSE IF self.y + self.h >= parent.y + parent.h
                 THEN parent.y + parent.h - self.h
            ELSE self.y,
            self.w, self.h))

\* Variant of move_inside: the clamp to the far edge forgets the parent's origin.
move_inside_ForgetsOrigin(self, parent) ==
    IF self.w > parent.w \/ self.h > parent.h THEN None
    ELSE Some(Rectangle(
            IF self.x < parent.x THEN parent.x
            ELSE IF self.x + self.w >= parent.x + parent.w
                 THEN parent.w - self.w
            ELSE self.x,
            IF self.y < parent.y THEN parent.y
            ELSE IF self.y + self.h >= parent.y + parent.h
                 THEN parent.h - self.h
            ELSE self.y,
            self.w, self.h))

\* Rectangle::move_inside
move_inside(self, parent) ==
    IF self.w > parent.w \/ self.h > parent.h THEN None
    ELSE Some(Rectangle(
            IF self.x < parent.x THEN parent.x
            ELSE IF self.x + self.w >= parent.x + parent.w
                 THEN parent.x + parent.w - self.w
            ELSE self.x,
            IF self.y < parent.y THEN parent.y
            ELSE IF self.y + self.h >= parent.y + parent.h
                 THEN parent.y + parent.h - self.h
            ELSE self.y,
            self.w, self.h))

\* Rectangle::contains
contains(self, rect) ==
    LET xmin == rect.x
        xmax == xmin + rect.w
        ymin == rect.y
        ymax == ymin + rect.h
    IN /\ xmin >= self.x /\ xmin <= self.x + self.w
       /\ xmax >= self.x /\ xmax <= self.x + self.w
       /\ ymin >= self.y /\ ymin <= self.y + self.h
       /\ ymax >= self.y /\ ymax <= self.y + self.h

\* Variant of overlaps: rectangles that share an edge overlap.
overlaps_Inclusive(self, other) ==
    /\ self.x <= other.x + other.w
    /\ self.x + self.w >= other.x
    /\ self.y <= other.y + other.h
    /\ self.y + self.h >= other.y

\* Rectangle::overlaps
overlaps(self, other) ==
    /\ self.x < other.x + other.w
    /\ self.x + self.w > other.x
    /\ self.y < other.y + other.h
    /\ self.y + self.h > other.y

\* Rectangle::with_size, Rectangle::center_at and Rectangle::center: the views
\* call them, phi/data.rs as given does not define them.  From the
\* specification: center_at "repositions a rectangle so its centroid is at
\* point".
with_size(w, h) == Rectangle(0, 0, w, h)
center_at(self, center) ==
    Rectangle(center[1] - self.w \div 2, center[2] - self.h \div 2, self.w, self.h)
center(self) == <<self.x + self.w \div 2, self.y + self.h \div 2>>

\* MaybeAlive::as_option (phi::data, not in the file as given): the value when
\* it is alive.
as_option(m) == IF m.alive THEN Some(m.value) ELSE None

\* Iterator::filter_map(f).collect() over a Vec.
RECURSIVE filter_map(_, _)
filter_map(f(_), seq) ==
    IF seq = <<>> THEN <<>>
    ELSE LET r == f(Head(seq))
         IN (IF r.some THEN <<r.value>> ELSE <<>>) \o filter_map(f, Tail(seq))

\* The window's output size in mpx (Phi::output_size, as f64).
output_size(size) == [w |-> 1000 * size.w, h |-> 1000 * size.h]

-----------------------------------------------------------------------------
(* f64::sin *)

\* sin is approximated by Bhaskara's formula 16 x (pi - x) / (5 pi^2 - 4 x (pi - x))
\* on [0, pi] (absolute error below 0.002), after reduction of the angle modulo
\* 2 pi.  The angle is in microradians and must not be negative; the result is
\* 1000 sin(angle).
PiMilli == 3142
TwoPiMicro == 6283185

SinMilli(microrad) ==
    LET x == (microrad % TwoPiMicro) \div 1000
        half(y) == LET p == y * (PiMilli - y)
                   IN (16 * p) \div ((5 * PiMilli * PiMilli - 4 * p) \div 1000)
    IN IF x <= PiMilli THEN half(x) ELSE 0 - half(x - PiMilli)

-----------------------------------------------------------------------------
(* views::bullets *)

BULLET_SPEED == 600
BULLET_SPEED_SLOW == 300
BULLET_W == 4000
BULLET_H == 8000

\* CannonType.  The amplitude is in mpx, angular_vel in rad/s, a in px, b in ms.
CannonRect == [type |-> "RectBullet"]
CannonSine(amplitude, angular_vel) ==
    [type |-> "SineBullet", amplitude |-> amplitude, angular_vel |-> angular_vel]
CannonDivergent(a, b) == [type |-> "DivergentBullet", a |-> a, b |-> b]

\* DivergentBullet::rect.  time_delta = total_time / b is kept in thousandths,
\* and dx = a * (time_delta^3 - time_delta^2) in mpx.
DivergentBullet_rect(self) ==
    LET td == (1000 * self.total_time) \div self.b
        td2 == (td * td) \div 1000
        td3 == (td2 * td) \div 1000
        dx == self.a * (td3 - td2)
    IN Rectangle(self.pos_x + dx, self.origin_y, BULLET_W, BULLET_H)

\* SineBullet::rect
SineBullet_rect(self) ==
    LET dx == (self.amplitude * SinMilli(self.angular_vel * self.total_time * 1000))
                  \div 1000
    IN Rectangle(self.pos_x + dx, self.origin_y, BULLET_W, BULLET_H)

\* Bullet::rect, by the kind of bullet.
Bullet_rect(self) ==
    CASE self.kind = "RectBullet" -> self.rect
      [] self.kind = "SineBullet" -> SineBullet_rect(self)
      [] self.kind = "DivergentBullet" -> DivergentBullet_rect(self)

\* DivergentBullet::update
DivergentBullet_update(self, size, dt) ==
    LET moved == [self EXCEPT !.total_time = @ + dt,
                              !.origin_y = @ - BULLET_SPEED_SLOW * dt]
        out == output_size(size)
        rect == DivergentBullet_rect(moved)
    IN IF rect.x > out.w \/ rect.x < 0 \/ rect.y > out.h \/ rect.y < 0
       THEN None ELSE Some(moved)

\* SineBullet::update
SineBullet_update(self, size, dt) ==
    LET moved == [self EXCEPT !.total_time = @ + dt,
                              !.origin_y = @ - BULLET_SPEED * dt]
    IN IF SineBullet_rect(moved).x > output_size(size).w THEN None ELSE Some(moved)

\* RectBullet::update
RectBullet_update(self, size, dt) ==
    LET moved == [self EXCEPT !.rect.y = @ - BULLET_SPEED * dt]
    IN IF moved.rect.x > output_size(size).w THEN None ELSE Some(moved)

\* Bullet::update, by the kind of bullet.
Bullet_update(self, size, dt) ==
    CASE self.kind = "RectBullet" -> RectBullet_update(self, size, dt)
      [] self.kind = "SineBullet" -> SineBullet_update(self, size, dt)
      [] self.kind = "DivergentBullet" -> DivergentBullet_update(self, size, dt)

\* bullets::spawn_bullets (the second cannon is commented out in the source).
Bullet_spawn_bullets(cannon, cannon1_x, cannon2_x, cannons_y) ==
    CASE cannon.type = "RectBullet" ->
            <<[kind |-> "RectBullet",
               rect |-> Rectangle(cannon1_x, cannons_y, BULLET_W, BULLET_H)]>>
      [] cannon.type = "SineBullet" ->
            <<[kind |-> "SineBullet", pos_x |-> cannon1_x, origin_y |-> cannons_y,
               amplitude |-> cannon.amplitude, angular_vel |-> cannon.angular_vel,
               total_time |-> 0]>>
      [] cannon.type = "DivergentBullet" ->
            <<[kind |-> "DivergentBullet", pos_x |-> cannon1_x, origin_y |-> cannons_y,
               a |-> 0 - cannon.a, b |-> cannon.b, total_time |-> 0]>>

-----------------------------------------------------------------------------
(* views::game: constants *)

PLAYER_SPEED == 360
PLAYER_W == 43000
PLAYER_H == 39000

TRUMPS_TOTAL == 16
TRUMP_WIDTH == 129750
TRUMP_HEIGHT == 200000
TRUMP_REST_FRAMES == 4

EXPLOSIONS_TOTAL == 17
EXPLOSION_SIDE == 96000
EXPLOSION_FPS == 16

\* Trump::update: `current_time >= 8.0`, in ms.
TRUMP_LIFETIME == 8000

\* Trump::update: `current_time >= 0.21500000000000008`; for a time that is a
\* whole number of milliseconds this is `current_time >= 216 ms`.
TRUMP_REST_TIME == 216

\* Trump::update keeps the frames of index >= 12.
TRUMP_FIRST_REST_FRAME == 12

\* A random f64 of [0, 1) is modelled as n / RandDen with n in 0..RandDen-1.
RandDen == 4

-----------------------------------------------------------------------------
(* phi::gfx::AnimatedSprite: the views use it, its file is not given.  From the
   specification: "advance(dt): accumulates dt into current_time"; a sprite is
   an ordered sequence of frames (here: their indices), a time accumulator, a
   playback rate and the rest state. *)

AnimatedSprite_with_fps(total_frames, fps) ==
    [sprites |-> [i \in 1..total_frames |-> i - 1], current_time |-> 0,
     fps |-> fps, is_resting |-> FALSE]

AnimatedSprite_add_time(self, dt) == [self EXCEPT !.current_time = @ + dt]

AnimatedSprite_set_fps(self, fps) == [self EXCEPT !.fps = fps]

-----------------------------------------------------------------------------
(* views::game: Trump *)

\* Trump::factory: the template sprite (1 fps, 16 frames).
Trump_factory == [sprite |-> AnimatedSprite_with_fps(TRUMPS_TOTAL, 1)]

\* Trump::rect: the hitbox, from the sprite's time.
Trump_rect(self) ==
    LET dy == (self.amplitude
                 * SinMilli(self.angular_vel * self.sprite.current_time * 1000))
                 \div 1000
    IN Rectangle(self.pos_x, self.origin_y + dy, TRUMP_WIDTH, TRUMP_HEIGHT)

\* The rest transition inside Trump::update: keep the frames whose (0-based)
\* position is >= 12.
Trump_rest(sprite) ==
    [sprite EXCEPT
        !.sprites = [j \in 1..(IF Len(@) > TRUMP_FIRST_REST_FRAME
                               THEN Len(@) - TRUMP_FIRST_REST_FRAME ELSE 0)
                        |-> @[j + TRUMP_FIRST_REST_FRAME]],
        !.is_resting = TRUE]

\* Variant of Trump_update: the rest transition does not test is_resting.
Trump_update_RestAgain(self, dt) ==
    LET aged == [self EXCEPT !.sprite = AnimatedSprite_add_time(@, dt)]
    IN IF aged.sprite.current_time >= TRUMP_LIFETIME THEN None
       ELSE IF aged.sprite.current_time >= TRUMP_REST_TIME
            THEN Some([aged EXCEPT !.sprite = Trump_rest(@)])
       ELSE Some(aged)

\* Trump::update
Trump_update(self, dt) ==
    LET aged == [self EXCEPT !.sprite = AnimatedSprite_add_time(@, dt)]
    IN IF aged.sprite.current_time >= TRUMP_LIFETIME THEN None
       ELSE IF aged.sprite.current_time >= TRUMP_REST_TIME /\ ~aged.sprite.is_resting
            THEN Some([aged EXCEPT !.sprite = Trump_rest(@)])
       ELSE Some(aged)

\* TrumpFactory::random.  r_pos and r_fps are the two random f64 drawn, as
\* numerators over RandDen.
TrumpFactory_random(factory, size, r_pos, r_fps) ==
    LET out == output_size(size)
        pos_x == (r_pos * (out.w - TRUMP_WIDTH)) \div RandDen
        origin_y == out.h \div 2 - 20000
    IN [sprite |-> AnimatedSprite_set_fps(factory.sprite, (r_fps * 20) \div RandDen + 10),
        rect |-> Rectangle(pos_x, origin_y, TRUMP_WIDTH, TRUMP_HEIGHT),
        amplitude |-> 15, angular_vel |-> 10,
        pos_x |-> pos_x, origin_y |-> origin_y]

-----------------------------------------------------------------------------
(* views::game: Explosion *)

\* Explosion::factory: the template sprite (16 fps, 17 frames).
Explosion_factory == [sprite |-> AnimatedSprite_with_fps(EXPLOSIONS_TOTAL, EXPLOSION_FPS)]

\* `alive_since >= EXPLOSION_DURATION`, where EXPLOSION_DURATION is
\* 1.0 / EXPLOSION_FPS * EXPLOSIONS_TOTAL seconds (1062.5 ms).
ExplosionOver(alive_since) == alive_since * EXPLOSION_FPS >= 1000 * EXPLOSIONS_TOTAL

\* Variant of Explosion_update: the age is tested before the frame's time is
\* added to it.
Explosion_update_Late(self, dt) ==
    LET aged == [self EXCEPT !.alive_since = @ + dt,
                             !.sprite = AnimatedSprite_add_time(@, dt)]
    IN IF ExplosionOver(self.alive_since) THEN None ELSE Some(aged)

\* Explosion::update
Explosion_update(self, dt) ==
    LET aged == [self EXCEPT !.alive_since = @ + dt,
                             !.sprite = AnimatedSprite_add_time(@, dt)]
    IN IF ExplosionOver(aged.alive_since) THEN None ELSE Some(aged)

\* ExplosionFactory::at_center
ExplosionFactory_at_center(factory, c) ==
    [sprite |-> factory.sprite,
     rect |-> center_at(with_size(EXPLOSION_SIDE, EXPLOSION_SIDE), c),
     alive_since |-> 0]

-----------------------------------------------------------------------------
(* views::game: Player *)

\* Player::new
Player_new(size) ==
    [rect |-> Rectangle(64000, (output_size(size).h - PLAYER_H) + 20000,
                        PLAYER_W, PLAYER_H),
     current |-> "MidNorm",
     cannon |-> CannonRect]

\* Player::spawn_bullets
Player_spawn_bullets(self) ==
    LET cannon1_x == self.rect.w \div 2 + self.rect.x
        cannons_y == self.rect.y
        cannon2_x == self.rect.x + PLAYER_W
    IN Bullet_spawn_bullets(self.cannon, cannon1_x, cannon2_x, cannons_y)

\* The sprite of the ship chosen at the end of Player::update.
PlayerFrame(dx, dy) ==
    CASE dx = 0 /\ dy < 0 -> "UpNorm"
      [] dx > 0 /\ dy < 0 -> "UpFast"
      [] dx < 0 /\ dy < 0 -> "UpSlow"
      [] dx = 0 /\ dy = 0 -> "MidNorm"
      [] dx > 0 /\ dy = 0 -> "MidFast"
      [] dx < 0 /\ dy = 0 -> "MidSlow"
      [] dx = 0 /\ dy > 0 -> "DownNorm"
      [] dx > 0 /\ dy > 0 -> "DownFast"
      [] dx < 0 /\ dy > 0 -> "DownSlow"

\* The movable region of Player::update.
movable_region(size) ==
    LET out == output_size(size)
    IN Rectangle(0, out.h - PLAYER_H - 20000, out.w, out.h \div 10)

\* Variant of Player_update: when move_inside fails the player keeps the
\* position it was moved to.
Player_update_KeepsUnclamped(self, ev, size, elapsed) ==
    LET c1 == IF ev.now.key["key_1"] = SnapTrue THEN CannonRect ELSE self.cannon
        c2 == IF ev.now.key["key_2"] = SnapTrue THEN CannonSine(10000, 15) ELSE c1
        c3 == IF ev.now.key["key_3"] = SnapTrue THEN CannonDivergent(100, 1200) ELSE c2
        diagonal == /\ ev.held["key_up"] # ev.held["key_down"]
                    /\ ev.held["key_left"] # ev.held["key_right"]
        moved == IF diagonal THEN (707 * PLAYER_SPEED * elapsed) \div 1000
                 ELSE PLAYER_SPEED * elapsed
        dx == CASE ev.held["key_left"] = ev.held["key_right"] -> 0
                [] ev.held["key_left"] /\ ~ev.held["key_right"] -> 0 - moved
                [] ~ev.held["key_left"] /\ ev.held["key_right"] -> moved
        dy == 0
        shifted == [self.rect EXCEPT !.x = @ + dx, !.y = @ + dy]
        inside == move_inside(shifted, movable_region(size))
    IN IF ~inside.some
       THEN Some([rect |-> shifted, current |-> PlayerFrame(dx, dy), cannon |-> c3])
       ELSE Some([rect |-> inside.value, current |-> PlayerFrame(dx, dy), cannon |-> c3])

\* Variant of Player_update: the player is moved and never clamped.
Player_update_NoClamp(self, ev, size, elapsed) ==
    LET c1 == IF ev.now.key["key_1"] = SnapTrue THEN CannonRect ELSE self.cannon
        c2 == IF ev.now.key["key_2"] = SnapTrue THEN CannonSine(10000, 15) ELSE c1
        c3 == IF ev.now.key["key_3"] = SnapTrue THEN CannonDivergent(100, 1200) ELSE c2
        diagonal == /\ ev.held["key_up"] # ev.held["key_down"]
                    /\ ev.held["key_left"] # ev.held["key_right"]
        moved == IF diagonal THEN (707 * PLAYER_SPEED * elapsed) \div 1000
                 ELSE PLAYER_SPEED * elapsed
        dx == CASE ev.held["key_left"] = ev.held["key_right"] -> 0
                [] ev.held["key_left"] /\ ~ev.held["key_right"] -> 0 - moved
                [] ~ev.held["key_left"] /\ ev.held["key_right"] -> moved
        dy == 0
        shifted == [self.rect EXCEPT !.x = @ + dx, !.y = @ + dy]
    IN Some([rect |-> shifted, current |-> PlayerFrame(dx, dy), cannon |-> c3])

\* Player::update.  None stands for the panic of `move_inside(..).unwrap()`.
\* 1 / sqrt(2) is taken as 707 / 1000.
Player_update(self, ev, size, elapsed) ==
    LET c1 == IF ev.now.key["key_1"] = SnapTrue THEN CannonRect ELSE self.cannon
        c2 == IF ev.now.key["key_2"] = SnapTrue THEN CannonSine(10000, 15) ELSE c1
        c3 == IF ev.now.key["key_3"] = SnapTrue THEN CannonDivergent(100, 1200) ELSE c2
        diagonal == /\ ev.held["key_up"] # ev.held["key_down"]
                    /\ ev.held["key_left"] # ev.held["key_right"]
        moved == IF diagonal THEN (707 * PLAYER_SPEED * elapsed) \div 1000
                 ELSE PLAYER_SPEED * elapsed
        dx == CASE ev.held["key_left"] = ev.held["key_right"] -> 0
                [] ev.held["key_left"] /\ ~ev.held["key_right"] -> 0 - moved
                [] ~ev.held["key_left"] /\ ev.held["key_right"] -> moved
        dy == 0
        shifted == [self.rect EXCEPT !.x = @ + dx, !.y = @ + dy]
        inside == move_inside(shifted, movable_region(size))
    IN IF ~inside.some THEN None
       ELSE Some([rect |-> inside.value, current |-> PlayerFrame(dx, dy), cannon |-> c3])

-----------------------------------------------------------------------------
(* views::shared::BgSet and the views *)

\* BgSet::new (Background::render leaves pos as it is).
BgSet_new == [back |-> [pos |-> 0, vel |-> 20]]

\* ViewAction
ActionNone == [type |-> "None"]
ActionQuit == [type |-> "Quit"]
ChangeView(view) == [type |-> "ChangeView", view |-> view]

\* GameView::with_backgrounds
GameView_with_backgrounds(size, bg) ==
    [kind |-> "GameView",
     player |-> Player_new(size),
     bullets |-> <<>>,
     trumps |-> <<>>,
     trump_factory |-> Trump_factory,
     explosions |-> <<>>,
     explosion_factory |-> Explosion_factory,
     bg |-> bg]

\* Variant of MainMenuView_with_backgrounds: the menu opens on its last entry.
MainMenuView_with_backgrounds_LastEntry(bg) ==
    [kind |-> "MainMenuView",
     actions |-> <<"New Game", "Quit">>,
     selected |-> 1,
     bg |-> bg]

\* MainMenuView::with_backgrounds.  The actions are "New Game" and "Quit".
MainMenuView_with_backgrounds(bg) ==
    [kind |-> "MainMenuView",
     actions |-> <<"New Game", "Quit">>,
     selected |-> 0,
     bg |-> bg]

-----------------------------------------------------------------------------
(* views::game: GameView::render *)

\* The `for bullet in &mut transition_bullets` loop for one trump: whether the
\* trump is still alive, and the bullets with their alive flags.
TrumpVsBullets(trump, bullets) ==
    LET hit(i) == overlaps(Trump_rect(trump), Bullet_rect(bullets[i].value))
    IN [trump_alive |-> ~\E i \in 1..Len(bullets) : hit(i),
        bullets |-> [i \in 1..Len(bullets) |->
                        IF hit(i) THEN [bullets[i] EXCEPT !.alive = FALSE]
                        ELSE bullets[i]]]

\* Variant of CollideTrump: overlapping the player does not kill the trump.
CollideTrump_PlayerSpares(st, trump, player_rect, factory) ==
    LET vs == TrumpVsBullets(trump, st.bullets)
        on_player == overlaps(Trump_rect(trump), player_rect)
    IN [bullets |-> vs.bullets,
        trumps |-> IF vs.trump_alive THEN Append(st.trumps, trump) ELSE st.trumps,
        explosions |-> IF vs.trump_alive THEN st.explosions
                       ELSE Append(st.explosions,
                                   ExplosionFactory_at_center(factory,
                                                              center(Trump_rect(trump)))),
        player_alive |-> st.player_alive /\ ~on_player]

\* Variant of CollideTrump: every bullet that hits also leaves an explosion.
CollideTrump_BulletExplodes(st, trump, player_rect, factory) ==
    LET vs == TrumpVsBullets(trump, st.bullets)
        on_player == overlaps(Trump_rect(trump), player_rect)
        trump_alive == vs.trump_alive /\ ~on_player
        own == IF trump_alive THEN <<>>
               ELSE <<ExplosionFactory_at_center(factory, center(Trump_rect(trump)))>>
        shot == SelectSeq(st.bullets,
                          LAMBDA b : b.alive /\ overlaps(Trump_rect(trump),
                                                         Bullet_rect(b.value)))
    IN [bullets |-> vs.bullets,
        trumps |-> IF trump_alive THEN Append(st.trumps, trump) ELSE st.trumps,
        explosions |-> st.explosions \o own
                        \o [i \in 1..Len(shot) |->
                              ExplosionFactory_at_center(
                                  factory, center(Bullet_rect(shot[i].value)))],
        player_alive |-> st.player_alive /\ ~on_player]

\* The closure of `self.trumps ... .filter_map(|trump| ...)` for one trump.  st
\* holds transition_bullets, the trumps kept so far, self.explosions and
\* player_alive.
CollideTrump(st, trump, player_rect, factory) ==
    LET vs == TrumpVsBullets(trump, st.bullets)
        on_player == overlaps(Trump_rect(trump), player_rect)
        trump_alive == vs.trump_alive /\ ~on_player
    IN [bullets |-> vs.bullets,
        trumps |-> IF trump_alive THEN Append(st.trumps, trump) ELSE st.trumps,
        explosions |-> IF trump_alive THEN st.explosions
                       ELSE Append(st.explosions,
                                   ExplosionFactory_at_center(factory,
                                                              center(Trump_rect(trump)))),
        player_alive |-> st.player_alive /\ ~on_player]

RECURSIVE CollideTrumps(_, _, _, _)
CollideTrumps(st, trumps, player_rect, factory) ==
    IF trumps = <<>> THEN st
    ELSE CollideTrumps(CollideTrump(st, Head(trumps), player_rect, factory),
                       Tail(trumps), player_rect, factory)

\* The collision pass of GameView::render, from `let mut player_alive = true`
\* to the rebuilding of self.bullets.
CollisionPass(bullets, trumps, explosions, player_rect, factory) ==
    LET transition_bullets == [i \in 1..Len(bullets) |->
                                  [alive |-> TRUE, value |-> bullets[i]]]
        st == CollideTrumps([bullets |-> transition_bullets, trumps |-> <<>>,
                             explosions |-> explosions, player_alive |-> TRUE],
                            trumps, player_rect, factory)
    IN [bullets |-> filter_map(as_option, st.bullets),
        trumps |-> st.trumps,
        explosions |-> st.explosions,
        player_alive |-> st.player_alive]

\* The three update passes at the start of GameView::render.
UpdatePass(view, size, elapsed) ==
    [bullets |-> filter_map(LAMBDA b : Bullet_update(b, size, elapsed), view.bullets),
     trumps |-> filter_map(LAMBDA t : Trump_update(t, elapsed), view.trumps),
     explosions |-> filter_map(LAMBDA e : Explosion_update(e, elapsed), view.explosions)]

\* What every result of a render carries: the action, the view afterwards, and
\* (for the claims) the frame's player_alive and the populations between the
\* update passes and the collision pass.
RenderResult(action, view, player_alive, updated) ==
    [action |-> action, view |-> view, player_alive |-> player_alive,
     updated |-> updated]

NoUpdate == [bullets |-> <<>>, trumps |-> <<>>, explosions |-> <<>>]

ActionPanic == [type |-> "Panic"]

\* Variant of GameFrame: a frame whose collision pass found an enemy on the
\* player ends the game.
GameFrame_DeathQuits(view, ev, size, elapsed, rnd, updated, hit) ==
    IF ~hit.player_alive
    THEN RenderResult(ActionQuit, [view EXCEPT !.bullets = hit.bullets,
                                               !.trumps = hit.trumps,
                                               !.explosions = hit.explosions],
                      hit.player_alive, updated)
    ELSE LET fired == IF ev.now.key["key_space"] = SnapTrue
                      THEN hit.bullets \o Player_spawn_bullets(view.player)
                      ELSE hit.bullets
             trumps == IF rnd.spawn
                       THEN Append(hit.trumps,
                                   TrumpFactory_random(view.trump_factory, size,
                                                       rnd.r_pos, rnd.r_fps))
                       ELSE hit.trumps
             player == Player_update(view.player, ev, size, elapsed)
         IN IF ~player.some
            THEN RenderResult(ActionPanic,
                              [view EXCEPT !.bullets = fired, !.trumps = trumps,
                                           !.explosions = hit.explosions],
                              hit.player_alive, updated)
            ELSE RenderResult(ActionNone,
                              [view EXCEPT !.bullets = fired, !.trumps = trumps,
                                           !.explosions = hit.explosions,
                                           !.player = player.value],
                              hit.player_alive, updated)

\* Variant of GameFrame: the cannon fires on every frame the fire key is held.
GameFrame_FireWhileHeld(view, ev, size, elapsed, rnd, updated, hit) ==
    LET fired == IF ev.held["key_space"]
                 THEN hit.bullets \o Player_spawn_bullets(view.player)
                 ELSE hit.bullets
        trumps == IF rnd.spawn
                  THEN Append(hit.trumps,
                              TrumpFactory_random(view.trump_factory, size,
                                                  rnd.r_pos, rnd.r_fps))
                  ELSE hit.trumps
        player == Player_update(view.player, ev, size, elapsed)
    IN IF ~player.some
       THEN RenderResult(ActionPanic,
                         [view EXCEPT !.bullets = fired, !.trumps = trumps,
                                      !.explosions = hit.explosions],
                         hit.player_alive, updated)
       ELSE RenderResult(ActionNone,
                         [view EXCEPT !.bullets = fired, !.trumps = trumps,
                                      !.explosions = hit.explosions,
                                      !.player = player.value],
                         hit.player_alive, updated)

\* The part of GameView::render after the escape test.  rnd holds the frame's
\* random draws: spawn (random::<usize>() % 100 == 0), r_pos and r_fps.
GameFrame(view, ev, size, elapsed, rnd, updated, hit) ==
    LET fired == IF ev.now.key["key_space"] = SnapTrue
                 THEN hit.bullets \o Player_spawn_bullets(view.player)
                 ELSE hit.bullets
        trumps == IF rnd.spawn
                  THEN Append(hit.trumps,
                              TrumpFactory_random(view.trump_factory, size,
                                                  rnd.r_pos, rnd.r_fps))
                  ELSE hit.trumps
        player == Player_update(view.player, ev, size, elapsed)
    IN IF ~player.some
       THEN RenderResult(ActionPanic,
                         [view EXCEPT !.bullets = fired, !.trumps = trumps,
                                      !.explosions = hit.explosions],
                         hit.player_alive, updated)
       ELSE RenderResult(ActionNone,
                         [view EXCEPT !.bullets = fired, !.trumps = trumps,
                                      !.explosions = hit.explosions,
                                      !.player = player.value],
                         hit.player_alive, updated)

\* Variant of GameView_render: the collision pass runs on the populations as
\* they were before the update passes, which then move and cull what is left.
GameView_render_CollideFirst(view, ev, size, elapsed, rnd) ==
    IF ev.now.quit THEN RenderResult(ActionQuit, view, TRUE, NoUpdate)
    ELSE IF ev.now.key["key_escape"] = SnapTrue
    THEN RenderResult(ChangeView(MainMenuView_with_backgrounds(view.bg)),
                      view, TRUE, NoUpdate)
    ELSE LET hit == CollisionPass(view.bullets, view.trumps, view.explosions,
                                  view.player.rect, view.explosion_factory)
             updated == UpdatePass([view EXCEPT !.bullets = hit.bullets,
                                                !.trumps = hit.trumps,
                                                !.explosions = hit.explosions],
                                   size, elapsed)
         IN GameFrame(view, ev, size, elapsed, rnd, updated,
                      [hit EXCEPT !.bullets = updated.bullets,
                                  !.trumps = updated.trumps,
                                  !.explosions = updated.explosions])

\* Variant of GameView_render: the enemy is spawned before the collision pass.
GameView_render_SpawnFirst(view, ev, size, elapsed, rnd) ==
    IF ev.now.quit THEN RenderResult(ActionQuit, view, TRUE, NoUpdate)
    ELSE IF ev.now.key["key_escape"] = SnapTrue
    THEN RenderResult(ChangeView(MainMenuView_with_backgrounds(view.bg)),
                      view, TRUE, NoUpdate)
    ELSE LET updated == UpdatePass(view, size, elapsed)
             trumps == IF rnd.spawn
                       THEN Append(updated.trumps,
                                   TrumpFactory_random(view.trump_factory, size,
                                                       rnd.r_pos, rnd.r_fps))
                       ELSE updated.trumps
             hit == CollisionPass(updated.bullets, trumps, updated.explosions,
                                  view.player.rect, view.explosion_factory)
         IN GameFrame(view, ev, size, elapsed, [rnd EXCEPT !.spawn = FALSE], updated, hit)

\* Variant of GameView_render: the player is also updated at the start of the
\* frame, before the collision pass and the firing.
GameView_render_PlayerFirst(view, ev, size, elapsed, rnd) ==
    IF ev.now.quit THEN RenderResult(ActionQuit, view, TRUE, NoUpdate)
    ELSE IF ev.now.key["key_escape"] = SnapTrue
    THEN RenderResult(ChangeView(MainMenuView_with_backgrounds(view.bg)),
                      view, TRUE, NoUpdate)
    ELSE LET player == Player_update(view.player, ev, size, elapsed)
             moved == IF player.some THEN [view EXCEPT !.player = player.value]
                      ELSE view
             updated == UpdatePass(moved, size, elapsed)
             hit == CollisionPass(updated.bullets, updated.trumps, updated.explosions,
                                  moved.player.rect, view.explosion_factory)
         IN GameFrame(moved, ev, size, elapsed, rnd, updated, hit)

\* GameView::render
GameView_render(view, ev, size, elapsed, rnd) ==
    IF ev.now.quit THEN RenderResult(ActionQuit, view, TRUE, NoUpdate)
    ELSE IF ev.now.key["key_escape"] = SnapTrue
    THEN RenderResult(ChangeView(MainMenuView_with_backgrounds(view.bg)),
                      view, TRUE, NoUpdate)
    ELSE LET updated == UpdatePass(view, size, elapsed)
             hit == CollisionPass(updated.bullets, updated.trumps, updated.explosions,
                                  view.player.rect, view.explosion_factory)
         IN GameFrame(view, ev, size, elapsed, rnd, updated, hit)

-----------------------------------------------------------------------------
(* views::main_menu: MainMenuView::render *)

\* Variant of MenuAction: every entry of the menu starts a game.
MenuAction_AlwaysNewGame(view, size) ==
    ChangeView(GameView_with_backgrounds(size, view.bg))

\* The closure of the selected action: "New Game" or "Quit".
MenuAction(view, size) ==
    IF view.actions[view.selected + 1] = "New Game"
    THEN ChangeView(GameView_with_backgrounds(size, view.bg))
    ELSE ActionQuit

\* Variant of MenuUp: `self.selected -= 1` without its wrap.
MenuUp_NoWrap(selected, n) == selected - 1

\* `self.selected -= 1` and `self.selected += 1`, each with its wrap.
MenuUp(selected, n) == IF selected - 1 < 0 THEN n - 1 ELSE selected - 1
MenuDown(selected, n) == IF selected + 1 >= n THEN 0 ELSE selected + 1

\* MainMenuView::render
MainMenuView_render(view, ev, size) ==
    IF ev.now.quit \/ ev.now.key["key_escape"] = SnapTrue
    THEN RenderResult(ActionQuit, view, TRUE, NoUpdate)
    ELSE IF ev.now.key["key_space"] = SnapTrue \/ ev.now.key["key_enter"] = SnapTrue
    THEN RenderResult(MenuAction(view, size), view, TRUE, NoUpdate)
    ELSE LET n == Len(view.actions)
             s1 == IF ev.now.key["key_up"] = SnapTrue
                   THEN MenuUp(view.selected, n) ELSE view.selected
             s2 == IF ev.now.key["key_down"] = SnapTrue THEN MenuDown(s1, n) ELSE s1
         IN RenderResult(ActionNone, [view EXCEPT !.selected = s2], TRUE, NoUpdate)

\* views::ShipView (views/mod.rs), with its own PLAYER_SPEED, in px/s.
ShipView_PLAYER_SPEED == 360

\* ShipView::new
ShipView_new == [kind |-> "ShipView", player |-> [rect |-> Rectangle(64000, 64000, 32000, 32000)]]

\* The movable region of ShipView::render: 70% of the width, the whole height.
ShipView_movable_region(size) ==
    LET out == output_size(size)
    IN Rectangle(0, 0, (out.w * 70) \div 100, out.h)

\* ShipView::render: the clamp (whose failure is a panic), then the quit test,
\* then the movement.
ShipView_render(view, ev, size, elapsed) ==
    LET inside == move_inside(view.player.rect, ShipView_movable_region(size))
    IN IF ~inside.some THEN RenderResult(ActionPanic, view, TRUE, NoUpdate)
       ELSE LET clamped == [view EXCEPT !.player.rect = inside.value]
            IN IF ev.now.quit \/ ev.now.key["key_escape"] = SnapTrue
               THEN RenderResult(ActionQuit, clamped, TRUE, NoUpdate)
               ELSE LET diagonal == /\ ev.held["key_up"] # ev.held["key_down"]
                                    /\ ev.held["key_left"] # ev.held["key_right"]
                        moved == IF diagonal
                                 THEN (707 * ShipView_PLAYER_SPEED * elapsed) \div 1000
                                 ELSE ShipView_PLAYER_SPEED * elapsed
                        dx == CASE ev.held["key_left"] = ev.held["key_right"] -> 0
                                [] ev.held["key_left"] -> 0 - moved
                                [] OTHER -> moved
                        dy == CASE ev.held["key_up"] = ev.held["key_down"] -> 0
                                [] ev.held["key_up"] -> 0 - moved
                                [] OTHER -> moved
                    IN RenderResult(ActionNone,
                                    [clamped EXCEPT !.player.rect.x = @ + dx,
                                                    !.player.rect.y = @ + dy],
                                    TRUE, NoUpdate)

\* current_view.render(&mut context, elapsed): dynamic dispatch on the view.
View_render(view, ev, size, elapsed, rnd) ==
    IF view.kind = "GameView" THEN GameView_render(view, ev, size, elapsed, rnd)
    ELSE IF view.kind = "ShipView" THEN ShipView_render(view, ev, size, elapsed)
    ELSE MainMenuView_render(view, ev, size)

-----------------------------------------------------------------------------
(* Observation of a frame *)

NoDraw == [spawn |-> FALSE, r_pos |-> 0, r_fps |-> 0]

\* Before the first frame.
NoFrame ==
    [pre |-> MainMenuView_with_backgrounds(BgSet_new), ev |-> Events_new,
     size |-> [w |-> 800, h |-> 600], elapsed |-> 0, rnd |-> NoDraw,
     action |-> "None", player_alive |-> TRUE, updated |-> NoUpdate,
     post |-> MainMenuView_with_backgrounds(BgSet_new), to |-> None]

\* `if !player_alive { println!(...) }`: the lines printed once r is rendered.
Reported(n, r) == IF r.player_alive THEN n ELSE n + 1

\* The frame observed when view `pre` was rendered with result r.
FrameOf(pre, ev, size, elapsed, rnd, r) ==
    [pre |-> pre, ev |-> ev, size |-> size, elapsed |-> elapsed, rnd |-> rnd,
     action |-> r.action.type, player_alive |-> r.player_alive,
     updated |-> r.updated, post |-> r.view,
     to |-> IF r.action.type = "ChangeView" THEN r.action.view ELSE None]

-----------------------------------------------------------------------------
(* phi::spawn: the frame loop *)

\* `let interval = 1_000 / 60;` (integer division: 16 ms).
interval == 1000 \div 60

\* Before the first iteration.
NoIter ==
    [seq |-> 0, kind |-> "none", now |-> 0, dt |-> 0, delay |-> 0,
     pumps |-> 0, renders |-> 0, presents |-> 0, rendered |-> 0,
     handed |-> 0]

\* The loop variables of the specifications that do not run the loop.
LoopIdle ==
    /\ clock = 0
    /\ before = 0
    /\ meter = [last_second |-> 0, fps |-> 0]
    /\ status = "running"
    /\ view_id = 1
    /\ iter = NoIter

\* The frame counter of spawn: `fps += 1`, printed and reset once a second.
Meter(m, now) ==
    IF now - m.last_second > 1000 THEN [last_second |-> now, fps |-> 0]
    ELSE [m EXCEPT !.fps = @ + 1]

-----------------------------------------------------------------------------
(* Bounds of the input-tracker specification *)

MaxEvents == 2      \* events drained by one pump
MaxPolls == 2       \* pumps in one behaviour

\* The keys whose events the input-tracker specification enumerates.
PolledKeys == {"key_space", "key_up"}

RawEvents ==
    {KeyDown(k) : k \in PolledKeys} \cup {KeyUp(k) : k \in PolledKeys}
        \cup {QuitEvent}

RECURSIVE SeqsUpTo(_, _)
SeqsUpTo(S, n) ==
    IF n = 0 THEN {<<>>}
    ELSE LET shorter == SeqsUpTo(S, n - 1)
         IN shorter \cup {Append(s, x) : s \in {t \in shorter : Len(t) = n - 1}, x \in S}

PollQueues == SeqsUpTo(RawEvents, MaxEvents)

\* The events of evs that are about key k.
KeyEventsOf(evs, k) == SelectSeq(evs, LAMBDA e : e.key = k)

\* The Events values the last pump went through (see PumpTrace).
LastPumpTrace ==
    PumpTrace([poll.before EXCEPT !.now = ImmediateEvents_new], poll.evs, win)

\* Number of not-held -> held transitions of key k in a pump's trace.
PressesIn(trace, k) ==
    Cardinality({i \in 1..(Len(trace) - 1) : ~trace[i].held[k] /\ trace[i + 1].held[k]})

\* Whether the held flag of key k changed at some event of a pump's trace.
HeldChangedIn(trace, k) ==
    \E i \in 1..(Len(trace) - 1) : trace[i].held[k] # trace[i + 1].held[k]

-----------------------------------------------------------------------------
(* The input tracker alone: a sequence of pumps over arbitrary event queues *)

EventsInit ==
    /\ events = Events_new
    /\ win = [w |-> 800, h |-> 600]
    /\ poll = [evs |-> <<>>, before |-> Events_new]
    /\ presses = [k \in PolledKeys |-> 0]
    /\ observed = [k \in PolledKeys |-> 0]
    /\ streak = [k \in PolledKeys |-> 0]
    /\ npolls = 0
    /\ current_view = MainMenuView_with_backgrounds(BgSet_new)
    /\ frame = NoFrame
    /\ nframes = 0
    /\ LoopIdle
    /\ call = NoCall
    /\ destroyed = 0

\* What one pump adds to the observations.
Observe(evs) ==
    LET trace == PumpTrace([events EXCEPT !.now = ImmediateEvents_new], evs, win)
    IN /\ poll' = [evs |-> evs, before |-> events]
       /\ presses' = [k \in PolledKeys |-> presses[k] + PressesIn(trace, k)]
       /\ observed' = [k \in PolledKeys |->
                          observed[k] + IF events'.now.key[k] = SnapTrue THEN 1 ELSE 0]
       /\ streak' = [k \in PolledKeys |->
                        IF ~events.held[k] /\ KeyEventsOf(evs, k) = <<KeyDown(k)>> THEN 1
                        ELSE IF streak[k] > 0 /\ KeyEventsOf(evs, k) = <<>>
                             THEN streak[k] + 1
                        ELSE 0]
       /\ npolls' = npolls + 1

Pump(evs) ==
    /\ npolls < MaxPolls
    /\ events' = pump(events, evs, win)
    /\ Observe(evs)
    /\ UNCHANGED <<win, viewVars, loopVars, call>>

EventsNext == \E evs \in PollQueues : Pump(evs)

SpecEvents == EventsInit /\ [][EventsNext]_vars

-----------------------------------------------------------------------------
(* Claims about the input tracker *)

\* C3: for every key, starting from not-held, a poll containing a single
\* key-down event for it shows the snapshot Some(true), each of the N >= 1
\* following polls with no event for that key shows None, and the held flag is
\* true after every one of these N + 1 polls.
C3_SingleDownThenNone ==
    \A k \in PolledKeys :
        /\ streak[k] = 1 => events.now.key[k] = SnapTrue /\ events.held[k]
        /\ streak[k] > 1 => events.now.key[k] = SnapNone /\ events.held[k]

C3_Witness ==
    /\ streak["key_space"] = MaxPolls
    /\ events.now.key["key_space"] = SnapNone
    /\ events.held["key_space"]

\* C4 (as claimed): every physical press of a key (a key-down taking it from
\* not-held to held) is observed as snapshot Some(true) in exactly one frame, so
\* after every poll the frames that showed Some(true) number the presses.
C4_EveryPressObservedOnce ==
    \A k \in PolledKeys : observed[k] = presses[k]

\* C5: a key-down event processed while its key is already held leaves the
\* key's snapshot entry as it was before the event and leaves held true.
C5_RepeatedDownNoEdge ==
    LET trace == LastPumpTrace
    IN /\ trace[Len(trace)] = events
       /\ \A i \in 1..Len(poll.evs) : \A k \in Keys :
            (poll.evs[i] = KeyDown(k) /\ trace[i].held[k])
                => /\ trace[i + 1].now.key[k] = trace[i].now.key[k]
                   /\ trace[i + 1].held[k]

C5_Witness ==
    /\ poll.before.held["key_space"]
    /\ poll.evs = <<KeyDown("key_space")>>
    /\ events.now.key["key_space"] = SnapNone
    /\ events.held["key_space"]

\* C6 (as claimed): after any poll a key's snapshot entry is Some(true) or
\* Some(false) only if the key's held flag changed during that poll.
C6_SnapshotOnlyOnTransition ==
    \A k \in PolledKeys :
        events.now.key[k] # SnapNone => HeldChangedIn(LastPumpTrace, k)

-----------------------------------------------------------------------------
(* Gameplay alone: frames of a GameView entered from the menu with Enter *)

MaxFrames == 3      \* frames rendered in one behaviour

\* The window at its initial size and made small.
GameSizes == {[w |-> 800, h |-> 600], [w |-> 80, h |-> 400]}

\* Elapsed times of a frame, in ms: a short frame and a long stall.
GameDts == {100, 4000}

\* Event queues of a frame: nothing, fire pressed, fire released and pressed.
GameQueues ==
    {<<>>, <<KeyDown("key_space")>>, <<KeyUp("key_space"), KeyDown("key_space")>>}

\* Random draws of a frame: no trump, or a trump at the left edge.
GameDraws == {NoDraw, [spawn |-> TRUE, r_pos |-> 0, r_fps |-> 0]}

GameInit ==
    /\ win \in GameSizes
    /\ events = pump(Events_new, <<KeyDown("key_enter")>>, win)
    /\ poll = [evs |-> <<KeyDown("key_enter")>>, before |-> Events_new]
    /\ presses = [k \in PolledKeys |-> 0]
    /\ observed = [k \in PolledKeys |-> 0]
    /\ streak = [k \in PolledKeys |-> 0]
    /\ npolls = 0
    /\ current_view = GameView_with_backgrounds(win, BgSet_new)
    /\ frame = NoFrame
    /\ nframes = 0
    /\ LoopIdle
    /\ call = NoCall
    /\ destroyed = 0

\* One accepted frame of the loop while a GameView is active: the pump, then
\* the render, then the loop's handling of the action.
GameStep(evs, size, dt, rnd) ==
    /\ nframes < MaxFrames
    /\ current_view.kind = "GameView"
    /\ frame.action = "None"
    /\ win' = size
    /\ events' = pump(events, evs, size)
    /\ poll' = [evs |-> evs, before |-> events]
    /\ LET r == GameView_render(current_view, events', size, dt, rnd)
       IN /\ frame' = FrameOf(current_view, events', size, dt, rnd, r)
          /\ destroyed' = Reported(destroyed, r)
          /\ current_view' = IF r.action.type = "ChangeView" THEN r.action.view
                             ELSE r.view
    /\ nframes' = nframes + 1
    /\ UNCHANGED <<presses, observed, streak, npolls, loopVars, call>>

GameNext ==
    \E evs \in GameQueues, size \in GameSizes, dt \in GameDts, rnd \in GameDraws :
        GameStep(evs, size, dt, rnd)

SpecGame == GameInit /\ [][GameNext]_vars

-----------------------------------------------------------------------------
(* Claims about a gameplay frame.  They read the last frame's observation:
   frame.pre is the GameView before the render, frame.updated the populations
   between the update passes and the collision pass, and current_view the
   GameView after the render. *)

\* The subsequence of seq at the positions in S.
Pick(seq, S) ==
    LET F[n \in 0..Len(seq)] ==
            IF n = 0 THEN <<>>
            ELSE IF n \in S THEN Append(F[n - 1], seq[n]) ELSE F[n - 1]
    IN F[Len(seq)]

\* The last frame was a gameplay frame that ran to its end.
FrameDone == nframes > 0 /\ frame.pre.kind = "GameView" /\ frame.action = "None"

\* The hitboxes the collision pass of the last frame read.
PlayerHitbox == frame.pre.player.rect
TrumpHitbox(i) == Trump_rect(frame.updated.trumps[i])
BulletHitbox(j) == Bullet_rect(frame.updated.bullets[j])

UpdatedTrumps == 1..Len(frame.updated.trumps)
UpdatedBullets == 1..Len(frame.updated.bullets)

\* The bullets overlapping trump i, whether trump i overlaps the player, and
\* the trumps overlapping a bullet or the player.
BulletHits(i) == {j \in UpdatedBullets : overlaps(TrumpHitbox(i), BulletHitbox(j))}
OnPlayer(i) == overlaps(TrumpHitbox(i), PlayerHitbox)
DeadTrumps == {i \in UpdatedTrumps : BulletHits(i) # {} \/ OnPlayer(i)}
HitPairs == {p \in UpdatedTrumps \X UpdatedBullets : p[2] \in BulletHits(p[1])}

\* The populations after the frame without what the frame admitted at its end
\* (the bullets fired and the trump spawned), and the explosions it appended.
KeptBullets ==
    SubSeq(current_view.bullets, 1,
           Len(current_view.bullets)
               - IF frame.ev.now.key["key_space"] = SnapTrue THEN 1 ELSE 0)
KeptTrumps ==
    SubSeq(current_view.trumps, 1,
           Len(current_view.trumps) - IF frame.rnd.spawn THEN 1 ELSE 0)
NewExplosions ==
    SubSeq(current_view.explosions, Len(frame.updated.explosions) + 1,
           Len(current_view.explosions))

\* Explosion e is new and centred at the centre of rectangle r.
CentredOn(e, r) ==
    /\ e.alive_since = 0
    /\ e.rect.w = EXPLOSION_SIDE /\ e.rect.h = EXPLOSION_SIDE
    /\ e.rect.x + e.rect.w \div 2 = r.x + r.w \div 2
    /\ e.rect.y + e.rect.h \div 2 = r.y + r.h \div 2

\* C7: in a gameplay frame where, after the update step, exactly one enemy
\* overlaps exactly one bullet and that enemy does not overlap the player, the
\* enemy and the bullet are both removed from their populations, exactly one
\* explosion centred at the centre of the enemy's hitbox is appended, and the
\* explosions appended number the enemies removed: none stands for the bullet.
C7_OneEnemyOneBullet ==
    \A i \in UpdatedTrumps : \A j \in UpdatedBullets :
        (FrameDone /\ HitPairs = {<<i, j>>} /\ ~OnPlayer(i))
            => /\ i \in DeadTrumps
               /\ KeptTrumps = Pick(frame.updated.trumps, UpdatedTrumps \ DeadTrumps)
               /\ KeptBullets = Pick(frame.updated.bullets, UpdatedBullets \ {j})
               /\ SubSeq(current_view.explosions, 1, Len(frame.updated.explosions))
                      = frame.updated.explosions
               /\ Len(NewExplosions) = Cardinality(DeadTrumps)
               /\ Cardinality({k \in 1..Len(NewExplosions) :
                                  CentredOn(NewExplosions[k], TrumpHitbox(i))}) = 1

C7_Witness ==
    /\ FrameDone
    /\ \E i \in UpdatedTrumps : \E j \in UpdatedBullets :
          /\ HitPairs = {<<i, j>>}
          /\ ~OnPlayer(i)
          /\ Len(frame.updated.bullets) > 1
          /\ Len(KeptBullets) = Len(frame.updated.bullets) - 1
          /\ Len(NewExplosions) = 1
          /\ CentredOn(NewExplosions[1], TrumpHitbox(i))

\* The smallest element of a non-empty set of numbers.
Least(S) == CHOOSE x \in S : \A y \in S : x <= y

\* C8 (as claimed): when several bullets overlap the same enemy, only the first
\* of them in population order is removed, so the bullets removed by the
\* collision pass are, for each enemy that a bullet overlaps, the first bullet
\* overlapping it.
C8_OnlyFirstBulletRemoved ==
    FrameDone =>
        KeptBullets =
            Pick(frame.updated.bullets,
                 UpdatedBullets \ {Least(BulletHits(i)) :
                                     i \in {t \in UpdatedTrumps : BulletHits(t) # {}}})

\* The position of dead trump i among the dead trumps.
DeadRank(i) == Cardinality({d \in DeadTrumps : d <= i})

\* C9: in a gameplay frame where an enemy overlaps the player, the enemy is
\* removed, exactly one explosion for it is appended (the explosions appended
\* are, in order, one per removed enemy, centred on it), also when a bullet
\* hits the same enemy in that frame, and the frame's player-alive flag is false.
C9_EnemyOnPlayer ==
    \A i \in UpdatedTrumps :
        (FrameDone /\ OnPlayer(i))
            => /\ ~frame.player_alive
               /\ KeptTrumps = Pick(frame.updated.trumps, UpdatedTrumps \ DeadTrumps)
               /\ Len(NewExplosions) = Cardinality(DeadTrumps)
               /\ \A d \in DeadTrumps :
                      CentredOn(NewExplosions[DeadRank(d)], TrumpHitbox(d))

C9_Witness ==
    /\ FrameDone
    /\ ~frame.player_alive
    /\ \E i \in UpdatedTrumps :
          /\ OnPlayer(i)
          /\ BulletHits(i) # {}
          /\ Len(frame.updated.trumps) = 1
          /\ KeptTrumps = <<>>
          /\ Len(NewExplosions) = 1

\* What the update passes of the last frame do to the populations of frame.pre.
PreTrumps == 1..Len(frame.pre.trumps)
PreBullets == 1..Len(frame.pre.bullets)
ExpiredTrumps ==
    {i \in PreTrumps :
        frame.pre.trumps[i].sprite.current_time + frame.elapsed >= TRUMP_LIFETIME}
CulledBullets ==
    {j \in PreBullets :
        ~Bullet_update(frame.pre.bullets[j], frame.size, frame.elapsed).some}
LiveExplosions ==
    {k \in 1..Len(frame.pre.explosions) :
        ~ExplosionOver(frame.pre.explosions[k].alive_since + frame.elapsed)}

\* The hitbox trump i of frame.pre has at the frame's time, and the rectangle
\* bullet j of frame.pre has once moved (culled or not).
AgedTrumpHitbox(i) ==
    Trump_rect([frame.pre.trumps[i] EXCEPT !.sprite.current_time = @ + frame.elapsed])
MovedBulletHitbox(j) ==
    LET b == frame.pre.bullets[j]
    IN CASE b.kind = "RectBullet" ->
                [b.rect EXCEPT !.y = @ - BULLET_SPEED * frame.elapsed]
         [] b.kind = "SineBullet" ->
                SineBullet_rect([b EXCEPT !.total_time = @ + frame.elapsed,
                                          !.origin_y = @ - BULLET_SPEED * frame.elapsed])
         [] b.kind = "DivergentBullet" ->
                DivergentBullet_rect(
                    [b EXCEPT !.total_time = @ + frame.elapsed,
                              !.origin_y = @ - BULLET_SPEED_SLOW * frame.elapsed])

\* The collisions among what the update passes left.
LiveTrumps == PreTrumps \ ExpiredTrumps
LiveBullets == PreBullets \ CulledBullets
LiveTrumpDies(i) ==
    \/ overlaps(AgedTrumpHitbox(i), PlayerHitbox)
    \/ \E j \in LiveBullets : overlaps(AgedTrumpHitbox(i), MovedBulletHitbox(j))
LiveBulletDies(j) ==
    \E i \in LiveTrumps : overlaps(AgedTrumpHitbox(i), MovedBulletHitbox(j))

\* C10: in every gameplay frame the populations are updated and culled before
\* the collision pass: only the enemies younger than their lifetime (8 s) after
\* the update and the bullets their update kept collide.  The enemies and
\* bullets removed by collision, the explosions appended and the player-alive
\* flag are those of the collisions among these; an expired enemy or a culled
\* bullet kills nothing, is no collision death and leaves no explosion.
C10_CullBeforeCollision ==
    FrameDone =>
        LET deadT == {i \in LiveTrumps : LiveTrumpDies(i)}
            deadB == {j \in LiveBullets : LiveBulletDies(j)}
            rank(i) == Cardinality({d \in deadT : d <= i})
            appended == SubSeq(current_view.explosions,
                               Cardinality(LiveExplosions) + 1,
                               Len(current_view.explosions))
        IN /\ Len(KeptTrumps) = Cardinality(LiveTrumps \ deadT)
           /\ KeptTrumps =
                 Pick([i \in PreTrumps |->
                          IF i \in LiveTrumps
                          THEN Trump_update(frame.pre.trumps[i], frame.elapsed).value
                          ELSE frame.pre.trumps[i]],
                      LiveTrumps \ deadT)
           /\ Len(KeptBullets) = Cardinality(LiveBullets \ deadB)
           /\ \A k \in 1..Len(KeptBullets) :
                 \E j \in LiveBullets \ deadB :
                     Bullet_rect(KeptBullets[k]) = MovedBulletHitbox(j)
           /\ Len(appended) = Cardinality(deadT)
           /\ \A d \in deadT : CentredOn(appended[rank(d)], AgedTrumpHitbox(d))
           /\ frame.player_alive
                 = ~\E i \in LiveTrumps : overlaps(AgedTrumpHitbox(i), PlayerHitbox)

\* An enemy reaches its lifetime in a frame in which its hitbox is on the
\* player: no explosion, and the player stays alive.
C10_Witness ==
    /\ FrameDone
    /\ \E i \in ExpiredTrumps : overlaps(AgedTrumpHitbox(i), PlayerHitbox)
    /\ frame.player_alive
    /\ Len(current_view.explosions) = Cardinality(LiveExplosions)

\* A bullet is culled in a frame in which it is on an enemy, which lives on.
C10_CulledBulletReached ==
    /\ FrameDone
    /\ \E j \in CulledBullets : \E i \in LiveTrumps :
          /\ overlaps(AgedTrumpHitbox(i), MovedBulletHitbox(j))
          /\ ~LiveTrumpDies(i)
          /\ Len(KeptTrumps) = Cardinality(LiveTrumps)

-----------------------------------------------------------------------------
(* The program: spawn's loop over the menu and the game.  The clock is read
   once per iteration (`now`); the time an iteration takes passes at its end.
   The model covers runs in which the u32 tick counter does not wrap. *)

MaxLoopFrames == 3  \* frames accepted in one behaviour

\* What an accepted frame (pump, render, present) takes, in ms.
FrameCosts == {5, 20}

\* By how much timer.delay may oversleep, in ms.
Oversleeps == {0, 4}

\* Event queues of a frame.
LoopQueues ==
    {<<>>, <<KeyDown("key_space")>>, <<KeyUp("key_space")>>,
     <<KeyDown("key_escape")>>, <<KeyDown("key_down")>>, <<QuitEvent>>}

Init ==
    /\ events = Events_new
    /\ win = [w |-> 800, h |-> 600]
    /\ poll = [evs |-> <<>>, before |-> Events_new]
    /\ presses = [k \in PolledKeys |-> 0]
    /\ observed = [k \in PolledKeys |-> 0]
    /\ streak = [k \in PolledKeys |-> 0]
    /\ npolls = 0
    /\ current_view = MainMenuView_with_backgrounds(BgSet_new)
    /\ frame = NoFrame
    /\ nframes = 0
    /\ LoopIdle
    /\ call = NoCall
    /\ destroyed = 0

\* Variant of LoopWait: the loop re-measures without sleeping the remainder.
LoopWait_NoDelay(over) ==
    LET now == clock
        dt == now - before
    IN /\ status = "running"
       /\ dt < interval
       /\ clock' = clock + 1 + over
       /\ iter' = [iter EXCEPT !.seq = @ + 1, !.kind = "wait", !.now = now,
                               !.dt = dt, !.delay = 1]
       /\ UNCHANGED <<events, win, eventObs, viewVars, before, meter, status, view_id, call>>

\* An iteration that finds dt < interval: `timer.delay(interval - dt); continue`.
LoopWait(over) ==
    LET now == clock
        dt == now - before
    IN /\ status = "running"
       /\ dt < interval
       /\ clock' = clock + (interval - dt) + over
       /\ iter' = [iter EXCEPT !.seq = @ + 1, !.kind = "wait", !.now = now,
                               !.dt = dt, !.delay = interval - dt]
       /\ UNCHANGED <<events, win, eventObs, viewVars, before, meter, status, view_id, call>>

\* Variant of MatchAction: ChangeView keeps the old view and Quit keeps looping.
MatchAction_KeepsView(r, id) ==
    [view |-> r.view, id |-> id,
     status |-> IF r.action.type = "Panic" THEN "panic" ELSE "running",
     present |-> r.action.type = "None"]

\* The match on the action a render returned: the next current_view, the
\* identity of its box, and whether the loop goes on.
MatchAction(r, id) ==
    LET a == r.action.type
    IN [view |-> IF a = "ChangeView" THEN r.action.view ELSE r.view,
        id |-> IF a = "ChangeView" THEN id + 1 ELSE id,
        status |-> CASE a = "Quit" -> "quit"
                     [] a = "Panic" -> "panic"
                     [] OTHER -> "running",
        present |-> a = "None"]

\* Variant of LoopFrame: `before` is set to the ticks read after the render, so
\* the time the frame took is left out of the next elapsed.
LoopFrame_LateBefore(evs, rnd, cost) ==
    LET now == clock
        dt == now - before
        elapsed == dt
    IN /\ status = "running"
       /\ nframes < MaxLoopFrames
       /\ ~(dt < interval)
       /\ before' = now + cost
       /\ meter' = Meter(meter, now)
       /\ events' = pump(events, evs, win)
       /\ poll' = [evs |-> evs, before |-> events]
       /\ LET r == View_render(current_view, events', win, elapsed, rnd)
              m == MatchAction(r, view_id)
          IN /\ frame' = FrameOf(current_view, events', win, elapsed, rnd, r)
             /\ destroyed' = Reported(destroyed, r)
             /\ current_view' = m.view
             /\ view_id' = m.id
             /\ status' = m.status
             /\ iter' = [iter EXCEPT !.seq = @ + 1, !.kind = "frame", !.now = now,
                                     !.dt = dt, !.delay = 0,
                                     !.pumps = @ + 1, !.renders = @ + 1,
                                     !.presents = IF m.present THEN @ + 1 ELSE @,
                                     !.rendered = view_id,
                                     !.handed = @ + elapsed]
       /\ nframes' = nframes + 1
       /\ clock' = clock + cost
       /\ UNCHANGED <<win, presses, observed, streak, npolls, call>>

\* An iteration that accepts a frame: the pump, the render of the active view
\* and the match on its action.
LoopFrame(evs, rnd, cost) ==
    LET now == clock
        dt == now - before
        elapsed == dt
    IN /\ status = "running"
       /\ nframes < MaxLoopFrames
       /\ ~(dt < interval)
       /\ before' = now
       /\ meter' = Meter(meter, now)
       /\ events' = pump(events, evs, win)
       /\ poll' = [evs |-> evs, before |-> events]
       /\ LET r == View_render(current_view, events', win, elapsed, rnd)
              m == MatchAction(r, view_id)
          IN /\ frame' = FrameOf(current_view, events', win, elapsed, rnd, r)
             /\ destroyed' = Reported(destroyed, r)
             /\ current_view' = m.view
             /\ view_id' = m.id
             /\ status' = m.status
             /\ iter' = [iter EXCEPT !.seq = @ + 1, !.kind = "frame", !.now = now,
                                     !.dt = dt, !.delay = 0,
                                     !.pumps = @ + 1, !.renders = @ + 1,
                                     !.presents = IF m.present THEN @ + 1 ELSE @,
                                     !.rendered = view_id,
                                     !.handed = @ + elapsed]
       /\ nframes' = nframes + 1
       /\ clock' = clock + cost
       /\ UNCHANGED <<win, presses, observed, streak, npolls, call>>

\* The random draws of a frame: the menu draws none.
LoopDraws == IF current_view.kind = "GameView" THEN GameDraws ELSE {NoDraw}

Next ==
    \/ \E over \in Oversleeps : LoopWait(over)
    \/ \E evs \in LoopQueues, rnd \in LoopDraws, cost \in FrameCosts :
          LoopFrame(evs, rnd, cost)

Spec == Init /\ [][Next]_vars

-----------------------------------------------------------------------------
(* Claims about the loop *)

\* A step that runs one iteration of the loop.
Iterated == iter'.seq = iter.seq + 1

\* C1: an iteration that measures dt < interval since the last accepted frame
\* pumps nothing, renders nothing, leaves `before` alone, asks for a delay of
\* interval - dt and re-measures no sooner than that; an iteration that
\* measures dt >= interval accepts the frame: it sets `before` to the measured
\* time, pumps once and renders the active view once with elapsed = dt.
C1_WaitOrAccept ==
    [][Iterated =>
         LET dt == clock - before
         IN /\ iter'.now = clock /\ iter'.dt = dt
            /\ dt < interval =>
                 /\ iter'.kind = "wait"
                 /\ iter'.pumps = iter.pumps /\ iter'.renders = iter.renders
                 /\ UNCHANGED <<events, current_view, view_id, frame, nframes, before, status>>
                 /\ iter'.delay = interval - dt
                 /\ clock' >= clock + (interval - dt)
            /\ dt >= interval =>
                 /\ iter'.kind = "frame"
                 /\ before' = clock
                 /\ iter'.pumps = iter.pumps + 1 /\ iter'.renders = iter.renders + 1
                 /\ nframes' = nframes + 1
                 /\ frame'.pre = current_view
                 /\ frame'.elapsed = dt
                 /\ frame'.ev = events'
                 /\ iter'.rendered = view_id]_vars

\* C1 witness: a frame was accepted after a wait, with the whole of the waited
\* time as its elapsed time.
C1_Witness ==
    /\ iter.kind = "frame" /\ iter.dt > interval
    /\ frame.elapsed = iter.dt
    /\ nframes = 2 /\ before = iter.now

\* C1 witness of the waiting branch: the last iteration waited the remainder.
C1_WaitReached ==
    iter.kind = "wait" /\ iter.dt = 5 /\ iter.delay = interval - 5 /\ nframes = 1

\* C2: after an accepted frame, ChangeView makes the returned view the current
\* one, in a new box, without presenting, and the loop goes on; Quit ends the
\* loop, after which nothing is pumped or rendered; None presents the frame and
\* keeps the same view, as the render left it, for the next frame.  Each frame is
\* rendered by the view that is current, so a replaced view is not rendered again.
C2_ActionHandling ==
    [][/\ status = "quit" => UNCHANGED vars
       /\ (Iterated /\ iter'.kind = "frame") =>
            /\ iter'.rendered = view_id
            /\ frame'.pre = current_view
            /\ frame'.action = "ChangeView" =>
                 /\ current_view' = frame'.to
                 /\ view_id' > view_id
                 /\ iter'.presents = iter.presents
                 /\ status' = "running"
            /\ frame'.action = "Quit" =>
                 /\ status' = "quit"
                 /\ iter'.presents = iter.presents
            /\ frame'.action = "None" =>
                 /\ current_view' = frame'.post
                 /\ view_id' = view_id
                 /\ iter'.presents = iter.presents + 1
                 /\ status' = "running"]_vars

\* C2 witness: the menu was replaced by the game, and the game rendered the
\* next frame and was presented.
C2_Witness ==
    /\ status = "running" /\ view_id = 2 /\ iter.kind = "frame" /\ iter.rendered = 2
    /\ frame.pre.kind = "GameView" /\ frame.action = "None"
    /\ iter.presents = 1 /\ iter.renders = 2

\* C2 witness of Quit: the loop was left from the game's frame.
C2_QuitReached ==
    status = "quit" /\ frame.pre.kind = "GameView" /\ frame.action = "Quit"

\* C2 witness of ChangeView from the game back to a new menu.
C2_BackToMenuReached ==
    view_id = 3 /\ current_view.kind = "MainMenuView" /\ frame.action = "ChangeView"

-----------------------------------------------------------------------------
(* Claims about firing *)

\* The bullets of the last frame that its collision pass removed, and the
\* number of bullets the frame added once the collision pass was over.
HitBullets == {j \in UpdatedBullets : \E i \in UpdatedTrumps : j \in BulletHits(i)}
AddedBullets ==
    Len(current_view.bullets) - (Len(frame.updated.bullets) - Cardinality(HitBullets))

\* The fire key's events of the last poll, and whether they hold a down-edge.
FireEvents == KeyEventsOf(poll.evs, "key_space")
FireEdge == PressesIn(LastPumpTrace, "key_space") > 0

\* C11: bullets are added to the population only in a frame whose poll carried
\* a down-edge of the fire key; a frame that finds the key held and polls no
\* event for it adds none, and the frame whose poll is the press adds exactly
\* the bullets of the player's cannon.
C11_FireOnEdgeOnly ==
    FrameDone =>
        /\ AddedBullets > 0 => FireEdge
        /\ (poll.before.held["key_space"] /\ FireEvents = <<>>) => AddedBullets = 0
        /\ (~poll.before.held["key_space"] /\ FireEvents = <<KeyDown("key_space")>>)
              => AddedBullets = Len(Player_spawn_bullets(frame.pre.player))

\* C11 witness: the key was pressed two frames ago and kept held; the bullet of
\* that press is in flight and neither of the two frames since added another.
C11_Witness ==
    /\ FrameDone /\ nframes = 3
    /\ poll.before.held["key_space"] /\ FireEvents = <<>>
    /\ events.held["key_space"]
    /\ Len(current_view.bullets) = 1 /\ AddedBullets = 0
    /\ frame.elapsed = 100 /\ frame.size.h = 600
    /\ current_view.bullets[1].rect.y = 581000 - 2 * 100 * BULLET_SPEED

-----------------------------------------------------------------------------
(* The ship view alone: the loop's accepted frames while a ShipView is the
   active view (the view the boot closure may hand to spawn) *)

MaxShipFrames == 3  \* frames rendered in one behaviour

\* The window at its initial size and made narrower than the ship needs.
ShipSizes == {[w |-> 800, h |-> 600], [w |-> 40, h |-> 600]}

\* Elapsed times of a frame, in ms.
ShipDts == {100, 2000}

\* Event queues of a frame.
ShipQueues ==
    {<<>>, <<QuitEvent>>, <<KeyDown("key_right")>>, <<KeyDown("key_down")>>,
     <<KeyUp("key_right")>>}

ShipInit ==
    /\ events = Events_new
    /\ win = [w |-> 800, h |-> 600]
    /\ poll = [evs |-> <<>>, before |-> Events_new]
    /\ presses = [k \in PolledKeys |-> 0]
    /\ observed = [k \in PolledKeys |-> 0]
    /\ streak = [k \in PolledKeys |-> 0]
    /\ npolls = 0
    /\ current_view = ShipView_new
    /\ frame = NoFrame
    /\ nframes = 0
    /\ LoopIdle
    /\ call = NoCall
    /\ destroyed = 0

\* One accepted frame of the loop while a ShipView is active: the pump, the
\* render and the match on the action.
ShipStep(evs, size, dt) ==
    /\ status = "running"
    /\ nframes < MaxShipFrames
    /\ current_view.kind = "ShipView"
    /\ win' = size
    /\ events' = pump(events, evs, size)
    /\ poll' = [evs |-> evs, before |-> events]
    /\ LET r == View_render(current_view, events', size, dt, NoDraw)
           m == MatchAction(r, view_id)
       IN /\ frame' = FrameOf(current_view, events', size, dt, NoDraw, r)
          /\ destroyed' = Reported(destroyed, r)
          /\ current_view' = m.view
          /\ view_id' = m.id
          /\ status' = m.status
    /\ nframes' = nframes + 1
    /\ UNCHANGED <<presses, observed, streak, npolls, clock, before, meter, iter, call>>

ShipNext ==
    \E evs \in ShipQueues, size \in ShipSizes, dt \in ShipDts : ShipStep(evs, size, dt)

SpecShip == ShipInit /\ [][ShipNext]_vars

\* C12: in every view, a frame whose snapshot has the quit flag set returns Quit
\* before anything else: the render leaves the view as it found it, nothing that
\* can fail runs first, and the loop ends in that frame.
C12_QuitFirst ==
    (nframes > 0 /\ frame.ev.now.quit) =>
        /\ frame.action = "Quit"
        /\ frame.post = frame.pre
        /\ status = "quit"

\* Quit frames of the ship view that end the loop.
C12_ShipQuitReached ==
    nframes > 0 /\ frame.ev.now.quit /\ frame.pre.kind = "ShipView" /\ status = "quit"

-----------------------------------------------------------------------------
(* Claims about view transitions (under Spec) *)

\* What the frame a step renders reads: the view it renders, the edges of its
\* snapshot and the entry the menu has selected.
StepInMenu == frame'.pre.kind = "MainMenuView"
StepInGame == frame'.pre.kind = "GameView"
StepQuitFlag == frame'.ev.now.quit
StepEscapeEdge == frame'.ev.now.key["key_escape"] = SnapTrue
StepSelectEdge ==
    \/ frame'.ev.now.key["key_space"] = SnapTrue
    \/ frame'.ev.now.key["key_enter"] = SnapTrue
StepSelected == frame'.pre.actions[frame'.pre.selected + 1]

\* The frames that ask for each transition.
MenuToGame ==
    StepInMenu /\ ~StepQuitFlag /\ ~StepEscapeEdge /\ StepSelectEdge
               /\ StepSelected = "New Game"
GameToMenu == StepInGame /\ ~StepQuitFlag /\ StepEscapeEdge
MenuQuits ==
    StepInMenu /\ (StepQuitFlag \/ StepEscapeEdge
                      \/ (StepSelectEdge /\ StepSelected = "Quit"))
GameQuits == StepInGame /\ StepQuitFlag

\* C13: the active view is replaced only in an accepted frame whose render, by
\* the view then active, returned ChangeView; this happens exactly from the menu
\* to a game (selection-key edge on "New Game") and from a game to the menu
\* (escape edge); the loop ends exactly on the menu's quit event, escape edge or
\* selection-key edge on "Quit" and on the game's quit event; on every other
\* step the active view is the same box.
C13_TransitionsOnlyByActiveView ==
    [][/\ (view_id' # view_id) =>
            /\ Iterated /\ iter'.kind = "frame"
            /\ frame'.pre = current_view /\ frame'.action = "ChangeView"
            /\ current_view' = frame'.to
       /\ (Iterated /\ iter'.kind = "frame") =>
            /\ (view_id' # view_id) <=> (MenuToGame \/ GameToMenu)
            /\ MenuToGame => current_view'.kind = "GameView"
            /\ GameToMenu => current_view'.kind = "MainMenuView"
            /\ (status' = "quit") <=> (MenuQuits \/ GameQuits)
       /\ ~(Iterated /\ iter'.kind = "frame") =>
            UNCHANGED <<current_view, view_id, status>>]_vars

\* C13 witness: an escape edge in a game frame put a new menu in its place.
C13_Witness ==
    /\ status = "running" /\ view_id = 3
    /\ frame.pre.kind = "GameView" /\ frame.ev.now.key["key_escape"] = SnapTrue
    /\ current_view.kind = "MainMenuView" /\ current_view = frame.to

\* The selection-key edge on the menu's "Quit" entry ended the loop.
C13_QuitEntryReached ==
    /\ status = "quit" /\ frame.pre.kind = "MainMenuView" /\ frame.pre.selected = 1
    /\ frame.ev.now.key["key_space"] = SnapTrue /\ ~frame.ev.now.quit

-----------------------------------------------------------------------------
(* View switches: the loop's accepted frames over the menu and the game, at a
   fixed frame time, long enough for the game to be left and entered again *)

MaxSwitchFrames == 4    \* frames rendered in one behaviour

\* Elapsed times of a frame, in ms.
SwitchDts == {100}

\* Event queues of a frame.
SwitchQueues ==
    {<<>>, <<KeyDown("key_space")>>, <<KeyDown("key_enter")>>,
     <<KeyDown("key_escape")>>, <<KeyDown("key_down")>>}

\* One accepted frame of the loop: the pump, the render of the active view and
\* the match on its action.
SwitchStep(evs, dt, rnd) ==
    /\ status = "running"
    /\ nframes < MaxSwitchFrames
    /\ events' = pump(events, evs, win)
    /\ poll' = [evs |-> evs, before |-> events]
    /\ LET r == View_render(current_view, events', win, dt, rnd)
           m == MatchAction(r, view_id)
       IN /\ frame' = FrameOf(current_view, events', win, dt, rnd, r)
          /\ destroyed' = Reported(destroyed, r)
          /\ current_view' = m.view
          /\ view_id' = m.id
          /\ status' = m.status
    /\ nframes' = nframes + 1
    /\ UNCHANGED <<win, presses, observed, streak, npolls, clock, before, meter, iter, call>>

SwitchNext ==
    \E evs \in SwitchQueues, dt \in SwitchDts, rnd \in LoopDraws :
        SwitchStep(evs, dt, rnd)

SpecSwitch == Init /\ [][SwitchNext]_vars

\* The last frame switched views.
Switched == nframes > 0 /\ frame.action = "ChangeView"

\* C14: a view switch carries the background set and nothing else.  A game
\* entered from the menu has no bullets, enemies or explosions and its player is
\* at the initial position, in its initial frame, with the default cannon,
\* whatever was played before; a menu entered from a game has selection index 0.
C14_OnlyBackgroundCarried ==
    Switched =>
        /\ current_view.bg = frame.pre.bg
        /\ frame.pre.kind = "MainMenuView" =>
             /\ current_view.kind = "GameView"
             /\ current_view.bullets = <<>>
             /\ current_view.trumps = <<>>
             /\ current_view.explosions = <<>>
             /\ current_view.player.rect =
                   Rectangle(64000, (win.h * 1000 - PLAYER_H) + 20000, PLAYER_W, PLAYER_H)
             /\ current_view.player.cannon = CannonRect
             /\ current_view.player.current = "MidNorm"
             /\ current_view = GameView_with_backgrounds(win, frame.pre.bg)
        /\ frame.pre.kind = "GameView" =>
             /\ current_view.kind = "MainMenuView"
             /\ current_view.selected = 0
             /\ current_view = MainMenuView_with_backgrounds(frame.pre.bg)

\* C14 witness: the game is entered for the second time (the first game had an
\* enemy in it and its player had been moved by the clamp), and starts afresh.
C14_Witness ==
    /\ Switched /\ frame.pre.kind = "MainMenuView" /\ view_id = 4
    /\ current_view.kind = "GameView" /\ current_view.trumps = <<>>
    /\ nframes = 4

\* A game that an enemy had entered was left for the menu.
C14_DirtyGameLeft ==
    /\ Switched /\ frame.pre.kind = "GameView"
    /\ Len(frame.pre.trumps) = 1
    /\ frame.pre.player.rect # Player_new(win).rect
    /\ current_view.selected = 0

-----------------------------------------------------------------------------
(* Claims about determinism of a gameplay frame (under SpecGame) *)

\* Outcomes of the frame's random draws: no spawn, or a spawn at the least or
\* the greatest position and animation speed.
AllDraws ==
    {NoDraw} \cup [spawn : {TRUE}, r_pos : {0, RandDen - 1}, r_fps : {0, RandDen - 1}]

\* What the last frame's render gives from the same view, events, window and
\* elapsed time when its random draws come out as rnd.
Replay(rnd) ==
    GameView_render(frame.pre, frame.ev, frame.size, frame.elapsed, rnd).view

\* C15 as stated: from the same view state, input and dt the render always
\* gives the same bullets, enemies, explosions and player.
C15_SameInputsSameFrame ==
    FrameDone =>
        \A rnd \in AllDraws :
            LET again == Replay(rnd)
            IN /\ again.bullets = current_view.bullets
               /\ again.trumps = current_view.trumps
               /\ again.explosions = current_view.explosions
               /\ again.player = current_view.player

\* C15 amended: from the same view state, events, window size and dt the render
\* always gives the same bullets, explosions and player and the same surviving
\* enemies; the enemy population differs only by the enemy the frame's random
\* draws may append at its end, which the draws determine.
C15_SameButForSpawn ==
    FrameDone =>
        \A rnd \in AllDraws :
            LET again == Replay(rnd)
            IN /\ again.bullets = current_view.bullets
               /\ again.explosions = current_view.explosions
               /\ again.player = current_view.player
               /\ again.trumps =
                     IF rnd.spawn
                     THEN Append(KeptTrumps,
                                 TrumpFactory_random(frame.pre.trump_factory, frame.size,
                                                     rnd.r_pos, rnd.r_fps))
                     ELSE KeptTrumps

\* C15 witness: a frame that spawned an enemy on top of a bullet in flight (the
\* two meet only in the next frame's collision pass).
C15_Witness ==
    /\ FrameDone /\ frame.rnd.spawn
    /\ Len(current_view.trumps) = 1
    /\ \E j \in 1..Len(current_view.bullets) :
           overlaps(Trump_rect(current_view.trumps[1]), Bullet_rect(current_view.bullets[j]))

-----------------------------------------------------------------------------
(* Rectangle's methods on their own: two rectangles are drawn, then a method is
   called on them.  Coordinates are whole numbers (the f64 of the code without
   its rounding); widths and heights are not negative. *)

MaxCoord == 2   \* greatest x and y of a rectangle
MaxSide == 2    \* greatest width and height of a rectangle

Rects == [x : 0..MaxCoord, y : 0..MaxCoord, w : 0..MaxSide, h : 0..MaxSide]

RectInit ==
    /\ events = Events_new
    /\ win = [w |-> 800, h |-> 600]
    /\ poll = [evs |-> <<>>, before |-> Events_new]
    /\ presses = [k \in PolledKeys |-> 0]
    /\ observed = [k \in PolledKeys |-> 0]
    /\ streak = [k \in PolledKeys |-> 0]
    /\ npolls = 0
    /\ current_view = MainMenuView_with_backgrounds(BgSet_new)
    /\ frame = NoFrame
    /\ nframes = 0
    /\ LoopIdle
    /\ call \in [fn : {"input"}, self : Rects, other : Rects, first : {None}, result : {None}]
    /\ destroyed = 0

\* self.overlaps(other)
CallOverlaps ==
    /\ call.fn = "input"
    /\ call' = [call EXCEPT !.fn = "overlaps", !.result = overlaps(call.self, call.other)]
    /\ UNCHANGED <<events, win, eventObs, viewVars, loopVars>>

\* self.move_inside(other)
CallMoveInside ==
    /\ call.fn = "input"
    /\ call' = [call EXCEPT !.fn = "move_inside",
                            !.result = move_inside(call.self, call.other)]
    /\ UNCHANGED <<events, win, eventObs, viewVars, loopVars>>

\* self.move_inside(other) once more, on the rectangle the first call returned.
CallMoveInsideAgain ==
    /\ call.fn = "move_inside"
    /\ call.result.some
    /\ call' = [call EXCEPT !.fn = "move_inside_again",
                            !.first = call.result,
                            !.result = move_inside(call.result.value, call.other)]
    /\ UNCHANGED <<events, win, eventObs, viewVars, loopVars>>

RectNext == CallOverlaps \/ CallMoveInside \/ CallMoveInsideAgain

SpecRect == RectInit /\ [][RectNext]_vars

\* call.other is call.self moved along the x-axis by at least its width.
Translated ==
    /\ call.other.w = call.self.w /\ call.other.h = call.self.h
    /\ call.other.y = call.self.y
    /\ \/ call.other.x - call.self.x >= call.self.w
       \/ call.self.x - call.other.x >= call.self.w

C16_TouchingReached ==
    /\ call.fn = "overlaps" /\ Translated /\ call.self.w > 0 /\ call.self.h > 0
    /\ call.other.x = call.self.x + call.self.w /\ ~call.result

C17_FailureReached ==
    /\ call.fn = "move_inside" /\ ~call.result.some
    /\ call.self.w > call.other.w /\ call.self.h <= call.other.h

-----------------------------------------------------------------------------
(* Claims about the enemy's rest frames (under SpecGame) *)

\* The frames of a new enemy and the frames it rests on.
AllTrumpFrames == [i \in 1..TRUMPS_TOTAL |-> i - 1]
RestTrumpFrames ==
    [i \in 1..(TRUMPS_TOTAL - TRUMP_FIRST_REST_FRAME) |-> TRUMP_FIRST_REST_FRAME + i - 1]

\* The position in frame.updated.trumps of enemy i of frame.pre, which the
\* update pass kept.
UpdatedIndex(i) == Cardinality({l \in LiveTrumps : l <= i})

\* C19: the rest transition of an enemy is one-way and happens once.  In every
\* update that keeps the enemy: a resting enemy stays resting with the frame
\* sequence it had; an enemy that was not resting either stays so with all its
\* frames, or (its time having reached the rest time) becomes resting with
\* exactly the trailing rest frames.  So every resting enemy has been truncated
\* exactly once.
C19_RestOneWay ==
    FrameDone =>
        /\ \A i \in LiveTrumps :
              LET old == frame.pre.trumps[i].sprite
                  new == frame.updated.trumps[UpdatedIndex(i)].sprite
              IN /\ old.is_resting =>
                       new.is_resting /\ new.sprites = old.sprites
                 /\ (~old.is_resting /\ new.is_resting) =>
                       /\ new.current_time >= TRUMP_REST_TIME
                       /\ new.sprites = RestTrumpFrames
                 /\ (~old.is_resting /\ ~new.is_resting) =>
                       /\ new.current_time < TRUMP_REST_TIME
                       /\ new.sprites = old.sprites
        /\ \A k \in 1..Len(current_view.trumps) :
              LET sp == current_view.trumps[k].sprite
              IN sp.sprites = IF sp.is_resting THEN RestTrumpFrames ELSE AllTrumpFrames

\* C19 witness: an enemy that was resting already was updated once more and is
\* still in the population, resting on the same frames.
C19_Witness ==
    /\ FrameDone
    /\ \E i \in LiveTrumps :
          /\ frame.pre.trumps[i].sprite.is_resting
          /\ frame.pre.trumps[i].sprite.sprites = RestTrumpFrames
          /\ frame.updated.trumps[UpdatedIndex(i)].sprite.sprites = RestTrumpFrames
          /\ \E k \in 1..Len(current_view.trumps) :
                current_view.trumps[k] = frame.updated.trumps[UpdatedIndex(i)]

-----------------------------------------------------------------------------
(* Gameplay in a window that is resized below what the player needs: the
   loop's accepted frames while a GameView is active *)

\* The window at its initial size, made too low (a tenth of 300 px is less than
\* the player's 39 px) and made too narrow (40 px against the player's 43 px).
SmallSizes == {[w |-> 800, h |-> 600], [w |-> 800, h |-> 300], [w |-> 40, h |-> 600]}

\* Elapsed times of a frame, in ms.
SmallDts == {100}

\* Event queues of a frame.
SmallQueues ==
    {<<>>, <<QuitEvent>>, <<KeyDown("key_escape")>>, <<KeyDown("key_right")>>,
     <<KeyDown("key_space")>>}

\* One accepted frame of the loop in a window of the given size: the pump, the
\* render of the active view and the match on its action.
SmallStep(evs, size, dt) ==
    /\ status = "running"
    /\ nframes < MaxFrames
    /\ current_view.kind = "GameView"
    /\ win' = size
    /\ events' = pump(events, evs, size)
    /\ poll' = [evs |-> evs, before |-> events]
    /\ LET r == View_render(current_view, events', size, dt, NoDraw)
           m == MatchAction(r, view_id)
       IN /\ frame' = FrameOf(current_view, events', size, dt, NoDraw, r)
          /\ destroyed' = Reported(destroyed, r)
          /\ current_view' = m.view
          /\ view_id' = m.id
          /\ status' = m.status
    /\ nframes' = nframes + 1
    /\ UNCHANGED <<presses, observed, streak, npolls, clock, before, meter, iter, call>>

SmallNext ==
    \E evs \in SmallQueues, size \in SmallSizes, dt \in SmallDts :
        SmallStep(evs, size, dt)

SpecSmall == GameInit /\ [][SmallNext]_vars

\* The last frame was a gameplay frame that got past the quit and escape tests,
\* and so to the player's update.
ReachedPlayerUpdate ==
    /\ nframes > 0 /\ frame.pre.kind = "GameView"
    /\ ~frame.ev.now.quit /\ frame.ev.now.key["key_escape"] # SnapTrue

\* The movable region of the last frame, from the window's size in pixels:
\* the whole width, a tenth of the height.
FrameRegion ==
    Rectangle(0, frame.size.h * 1000 - PLAYER_H - 20000,
              frame.size.w * 1000, frame.size.h * 100)
RegionTooSmall == PLAYER_W > FrameRegion.w \/ PLAYER_H > FrameRegion.h

C20_TooNarrowReached ==
    /\ ReachedPlayerUpdate /\ frame.size = [w |-> 40, h |-> 600]
    /\ frame.action = "Panic"

-----------------------------------------------------------------------------
(* Bullets that leave the window *)

\* The rectangle r lies wholly outside the window, past one of its four sides.
LeftWindow(r, size) ==
    LET out == output_size(size)
    IN r.x + r.w < 0 \/ r.x > out.w \/ r.y + r.h < 0 \/ r.y > out.h

\* The bullets of frame.pre whose moved hitbox is outside the window.
GoneBullets == {j \in PreBullets : LeftWindow(MovedBulletHitbox(j), frame.size)}

\* C21: every bullet, of any kind, whose hitbox has left the window on any side
\* is removed by its update in that frame.
C21_LeftWindowIsCulled ==
    FrameDone => GoneBullets \subseteq CulledBullets

-----------------------------------------------------------------------------
(* Bullets already marked dead *)

\* Bullet j was marked dead by a trump tested before trump i.
SpentBefore(j, i) == \E k \in UpdatedTrumps : k < i /\ j \in BulletHits(k)

\* The trumps that die when a bullet marked dead kills no further trump.
FirstKills ==
    {i \in UpdatedTrumps :
        OnPlayer(i) \/ \E j \in BulletHits(i) : ~SpentBefore(j, i)}

\* C22: within one collision pass a bullet that an enemy has marked dead kills
\* no other enemy, so the enemies removed are those on the player or on a
\* bullet no earlier enemy has marked dead; and the explosions that were there
\* before the collision pass are untouched by it.
C22_SpentBulletKillsNoMore ==
    FrameDone =>
        /\ KeptTrumps = Pick(frame.updated.trumps, UpdatedTrumps \ FirstKills)
        /\ SubSeq(current_view.explosions, 1, Len(frame.updated.explosions))
              = frame.updated.explosions

-----------------------------------------------------------------------------
(* What a frame admits *)

\* The fire key's snapshot of the last frame, and what the frame appended to
\* the bullets and to the trumps after its collision pass.
FiredNow == frame.ev.now.key["key_space"] = SnapTrue
AdmittedBullets ==
    SubSeq(current_view.bullets, Len(KeptBullets) + 1, Len(current_view.bullets))
AdmittedTrumps ==
    SubSeq(current_view.trumps, Len(KeptTrumps) + 1, Len(current_view.trumps))

\* C23: in a gameplay frame the bullets the player fires and the enemy spawned
\* at random are added after the update step and after the collision pass.  The
\* collisions are those of the populations the update step left; what the frame
\* admits follows them in the populations exactly as made (the bullets at the
\* cannon of the player as the frame found it, the enemy with no time played),
\* whatever it overlaps; and a frame admits at most one enemy.
C23_AdmittedAfterCollision ==
    FrameDone =>
        /\ KeptBullets = Pick(frame.updated.bullets, UpdatedBullets \ HitBullets)
        /\ KeptTrumps = Pick(frame.updated.trumps, UpdatedTrumps \ DeadTrumps)
        /\ Len(NewExplosions) = Cardinality(DeadTrumps)
        /\ frame.player_alive = ~\E i \in UpdatedTrumps : OnPlayer(i)
        /\ AdmittedBullets = IF FiredNow THEN Player_spawn_bullets(frame.pre.player)
                             ELSE <<>>
        /\ AdmittedTrumps =
              IF frame.rnd.spawn
              THEN <<TrumpFactory_random(frame.pre.trump_factory, frame.size,
                                         frame.rnd.r_pos, frame.rnd.r_fps)>>
              ELSE <<>>
        /\ Len(AdmittedTrumps) <= 1
        /\ \A t \in 1..Len(AdmittedTrumps) :
              AdmittedTrumps[t].sprite.current_time = 0

\* C23 witness: a frame fires a bullet and spawns an enemy that lies on that
\* bullet and on the player; all three are there after the frame, the player
\* is not reported dead and no explosion is made.
C23_Witness ==
    /\ FrameDone /\ FiredNow /\ frame.rnd.spawn
    /\ Len(AdmittedTrumps) = 1 /\ Len(AdmittedBullets) = 1
    /\ overlaps(Trump_rect(AdmittedTrumps[1]), Bullet_rect(AdmittedBullets[1]))
    /\ overlaps(Trump_rect(AdmittedTrumps[1]), PlayerHitbox)
    /\ frame.player_alive
    /\ NewExplosions = <<>>

-----------------------------------------------------------------------------
(* The life of an explosion: gameplay frames in a window low enough for the
   enemies to spawn on the player, with frame times about half the explosion's
   duration *)

MaxBoomFrames == 5  \* frames rendered in one behaviour

BoomSizes == {[w |-> 80, h |-> 400]}
BoomDts == {16, 531, 532}
BoomQueues == {<<>>}

\* One accepted frame of the loop while a GameView is active.
BoomStep(evs, size, dt, rnd) ==
    /\ nframes < MaxBoomFrames
    /\ current_view.kind = "GameView"
    /\ frame.action = "None"
    /\ win' = size
    /\ events' = pump(events, evs, size)
    /\ poll' = [evs |-> evs, before |-> events]
    /\ LET r == GameView_render(current_view, events', size, dt, rnd)
       IN /\ frame' = FrameOf(current_view, events', size, dt, rnd, r)
          /\ destroyed' = Reported(destroyed, r)
          /\ current_view' = IF r.action.type = "ChangeView" THEN r.action.view
                             ELSE r.view
    /\ nframes' = nframes + 1
    /\ UNCHANGED <<presses, observed, streak, npolls, loopVars, call>>

BoomNext ==
    \E evs \in BoomQueues, size \in BoomSizes, dt \in BoomDts, rnd \in GameDraws :
        BoomStep(evs, size, dt, rnd)

SpecBoom == GameInit /\ [][BoomNext]_vars

\* The explosions the last frame found, and those of them whose age with the
\* frame's time is 17 frames at 16 fps (1062.5 ms) or more.
PreExplosions == 1..Len(frame.pre.explosions)
AgeWithFrame(k) == frame.pre.explosions[k].alive_since + frame.elapsed
DueExplosions == {k \in PreExplosions : 16 * AgeWithFrame(k) >= 17 * 1000}

\* C24: an explosion is removed by the first update at which its accumulated
\* age is at least 1.0625 s and never earlier (so every explosion in the
\* population is younger than that); an explosion that stays has aged by the
\* frame's time, which is at least 16 ms; and an explosion made in a frame has
\* age 0 at the end of that frame.
C24_ExplosionLifetime ==
    FrameDone =>
        /\ frame.elapsed >= 16
        /\ frame.updated.explosions
              = Pick([k \in PreExplosions |->
                         [frame.pre.explosions[k] EXCEPT
                              !.alive_since = AgeWithFrame(k),
                              !.sprite.current_time = @ + frame.elapsed]],
                     PreExplosions \ DueExplosions)
        /\ SubSeq(current_view.explosions, 1, Len(frame.updated.explosions))
              = frame.updated.explosions
        /\ \A k \in 1..Len(NewExplosions) : NewExplosions[k].alive_since = 0
        /\ \A k \in 1..Len(current_view.explosions) :
              16 * current_view.explosions[k].alive_since < 17 * 1000

\* C24 witness: an explosion that has lived 531 ms and 531 ms more (1062 ms) is
\* removed by the update of a 16 ms frame.
C24_Witness ==
    /\ FrameDone /\ frame.elapsed = 16
    /\ \E k \in DueExplosions : frame.pre.explosions[k].alive_since = 2 * 531
    /\ frame.updated.explosions = <<>>

\* An explosion aged 1062 ms is still there, half a millisecond before its end.
C24_AlmostOverReached ==
    /\ FrameDone
    /\ \E k \in 1..Len(current_view.explosions) :
          current_view.explosions[k].alive_since = 2 * 531

\* An explosion is made by the frame and has age 0 at its end.
C24_NewReached ==
    /\ FrameDone
    /\ NewExplosions # <<>>

-----------------------------------------------------------------------------
(* The player under the movement keys: gameplay frames with the movement keys
   pressed and released, short and long frame times, and the window resized *)

MaxMoveFrames == 2  \* frames rendered in one behaviour

MoveSizes == {[w |-> 800, h |-> 600], [w |-> 400, h |-> 500]}
MoveDts == {100, 3000}
MoveQueues ==
    {<<>>, <<KeyDown("key_left")>>, <<KeyDown("key_right")>>,
     <<KeyUp("key_right"), KeyDown("key_up")>>,
     <<KeyDown("key_right"), KeyDown("key_down")>>}

\* One accepted frame of the loop while a GameView is active; no enemy spawns.
MoveStep(evs, size, dt) ==
    /\ nframes < MaxMoveFrames
    /\ current_view.kind = "GameView"
    /\ frame.action = "None"
    /\ win' = size
    /\ events' = pump(events, evs, size)
    /\ poll' = [evs |-> evs, before |-> events]
    /\ LET r == GameView_render(current_view, events', size, dt, NoDraw)
       IN /\ frame' = FrameOf(current_view, events', size, dt, NoDraw, r)
          /\ destroyed' = Reported(destroyed, r)
          /\ current_view' = IF r.action.type = "ChangeView" THEN r.action.view
                             ELSE r.view
    /\ nframes' = nframes + 1
    /\ UNCHANGED <<presses, observed, streak, npolls, loopVars, call>>

MoveNext ==
    \E evs \in MoveQueues, size \in MoveSizes, dt \in MoveDts : MoveStep(evs, size, dt)

SpecMove == GameInit /\ [][MoveNext]_vars

\* Rectangle r lies fully inside rectangle region.
FullyInside(r, region) ==
    /\ region.x <= r.x /\ r.x + r.w <= region.x + region.w
    /\ region.y <= r.y /\ r.y + r.h <= region.y + region.h

C25_ResizedReached ==
    /\ FrameDone /\ nframes = 2
    /\ ~FullyInside(frame.pre.player.rect, movable_region(win))
    /\ FullyInside(frame.pre.player.rect, movable_region([w |-> 800, h |-> 600]))

-----------------------------------------------------------------------------
(* The player's death: gameplay frames in a window low enough for the enemies
   to spawn on the player, with the left and fire keys *)

MaxDeathFrames == 4  \* frames rendered in one behaviour

DeathSizes == {[w |-> 80, h |-> 400]}
DeathDts == {100}
DeathQueues ==
    {<<>>, <<KeyDown("key_left"), KeyDown("key_space")>>,
     <<KeyUp("key_left"), KeyUp("key_space")>>}

\* One accepted frame of the loop while a GameView is active.
DeathStep(evs, size, dt, rnd) ==
    /\ nframes < MaxDeathFrames
    /\ current_view.kind = "GameView"
    /\ frame.action = "None"
    /\ win' = size
    /\ events' = pump(events, evs, size)
    /\ poll' = [evs |-> evs, before |-> events]
    /\ LET r == GameView_render(current_view, events', size, dt, rnd)
       IN /\ frame' = FrameOf(current_view, events', size, dt, rnd, r)
          /\ destroyed' = Reported(destroyed, r)
          /\ current_view' = IF r.action.type = "ChangeView" THEN r.action.view
                             ELSE r.view
    /\ nframes' = nframes + 1
    /\ UNCHANGED <<presses, observed, streak, npolls, loopVars, call>>

DeathNext ==
    \E evs \in DeathQueues, size \in DeathSizes, dt \in DeathDts, rnd \in GameDraws :
        DeathStep(evs, size, dt, rnd)

SpecDeath == GameInit /\ [][DeathNext]_vars

\* The last frame was a gameplay frame that got past the quit and escape tests.
PastEscape ==
    /\ nframes > 0 /\ frame.pre.kind = "GameView"
    /\ ~frame.ev.now.quit /\ frame.ev.now.key["key_escape"] # SnapTrue

\* C26: the player's death neither removes the player nor stops the game.  The
\* frame in which an enemy overlapped the player, and every gameplay frame
\* after it, returns None and leaves the gameplay view active; the player is
\* still updated (moved by the held keys, kept in the movable region), still
\* fires on a press of the fire key, and is reported dead again exactly when
\* an enemy overlaps it again.
C26_DeathStopsNothing ==
    (PastEscape /\ destroyed > 0) =>
        /\ frame.action = "None"
        /\ current_view.kind = "GameView"
        /\ Some(current_view.player)
              = Player_update(frame.pre.player, frame.ev, frame.size, frame.elapsed)
        /\ AdmittedBullets = IF FiredNow THEN Player_spawn_bullets(frame.pre.player)
                             ELSE <<>>
        /\ frame.player_alive = ~\E i \in UpdatedTrumps : OnPlayer(i)

\* C26 witness: the player has been reported dead before and is reported dead
\* again in a frame in which it moves left and fires.
C26_Witness ==
    /\ PastEscape /\ destroyed >= 2
    /\ ~frame.player_alive
    /\ frame.action = "None"
    /\ current_view.player.rect.x < frame.pre.player.rect.x
    /\ FiredNow /\ Len(AdmittedBullets) = 1

\* A frame after a death in which no enemy is on the player.
C26_AliveAgainReached ==
    /\ PastEscape /\ destroyed = 1
    /\ frame.player_alive
    /\ frame.action = "None"

-----------------------------------------------------------------------------
(* The rest state and the playback rate *)

\* The non-rest frames trump sprite s has played at its own rate, in
\* thousandths of a frame.
FramesPlayed(s) == s.current_time * s.fps

\* C27: an enemy's sprite is in the rest state only once its accumulated time
\* is the time of its 12 non-rest frames at its own playback rate
\* (current_time * fps >= 12), whatever rate the factory gave it.
C27_RestAfterNonRestFrames ==
    FrameDone =>
        \A i \in UpdatedTrumps :
            frame.updated.trumps[i].sprite.is_resting
                => FramesPlayed(frame.updated.trumps[i].sprite) >= 12 * 1000

-----------------------------------------------------------------------------
(* The menu's selection: accepted frames of the loop while the menu is the
   active view, with the up, down and enter keys *)

MaxMenuFrames == 3  \* frames rendered in one behaviour

MenuDts == {100}
MenuQueues ==
    {<<>>, <<KeyDown("key_up")>>, <<KeyDown("key_down")>>,
     <<KeyUp("key_up")>>, <<KeyUp("key_down")>>,
     <<KeyDown("key_up"), KeyDown("key_down")>>, <<KeyDown("key_enter")>>}

\* One accepted frame of the loop while the menu is active: the pump, the
\* render and the match on the action.
MenuStep(evs, dt) ==
    /\ status = "running"
    /\ nframes < MaxMenuFrames
    /\ current_view.kind = "MainMenuView"
    /\ events' = pump(events, evs, win)
    /\ poll' = [evs |-> evs, before |-> events]
    /\ LET r == View_render(current_view, events', win, dt, NoDraw)
           m == MatchAction(r, view_id)
       IN /\ frame' = FrameOf(current_view, events', win, dt, NoDraw, r)
          /\ destroyed' = Reported(destroyed, r)
          /\ current_view' = m.view
          /\ view_id' = m.id
          /\ status' = m.status
    /\ nframes' = nframes + 1
    /\ UNCHANGED <<win, presses, observed, streak, npolls, clock, before, meter, iter, call>>

MenuNext == \E evs \in MenuQueues, dt \in MenuDts : MenuStep(evs, dt)

SpecMenu == Init /\ [][MenuNext]_vars

\* The last frame was rendered by the menu; its up, down and selection edges.
MenuFrame == nframes > 0 /\ frame.pre.kind = "MainMenuView"
UpEdge == frame.ev.now.key["key_up"] = SnapTrue
DownEdge == frame.ev.now.key["key_down"] = SnapTrue
Activated ==
    /\ ~frame.ev.now.quit /\ frame.ev.now.key["key_escape"] # SnapTrue
    /\ \/ frame.ev.now.key["key_space"] = SnapTrue
       \/ frame.ev.now.key["key_enter"] = SnapTrue
LastAction == Len(frame.pre.actions) - 1

\* C28: the menu's selection index is always within [0, number of actions - 1]:
\* an up edge takes it one up, from 0 to the last action, a down edge one down,
\* from the last action to 0; and the frame that activates the selection reads
\* an action that exists and returns what that action gives.
C28_SelectionInRange ==
    /\ current_view.kind = "MainMenuView"
          => current_view.selected \in 0..(Len(current_view.actions) - 1)
    /\ (MenuFrame /\ frame.action = "None" /\ UpEdge /\ ~DownEdge)
          => frame.post.selected
                = IF frame.pre.selected = 0 THEN LastAction ELSE frame.pre.selected - 1
    /\ (MenuFrame /\ frame.action = "None" /\ DownEdge /\ ~UpEdge)
          => frame.post.selected
                = IF frame.pre.selected = LastAction THEN 0 ELSE frame.pre.selected + 1
    /\ (MenuFrame /\ Activated)
          => /\ frame.pre.selected + 1 \in DOMAIN frame.pre.actions
             /\ frame.action
                   = IF frame.pre.actions[frame.pre.selected + 1] = "Quit"
                     THEN "Quit" ELSE "ChangeView"
             /\ frame.post.selected = frame.pre.selected

\* C28 witness: up from index 0 has wrapped to the last action, "Quit", and
\* the frame that activates it quits.
C28_Witness ==
    /\ MenuFrame /\ nframes = 2 /\ Activated
    /\ frame.pre.selected = LastAction
    /\ poll.before.held["key_up"]
    /\ frame.action = "Quit" /\ status = "quit"

\* Down from the last action has wrapped to index 0.
C28_DownWrapReached ==
    /\ MenuFrame /\ DownEdge /\ ~UpEdge
    /\ frame.pre.selected = LastAction
    /\ current_view.kind = "MainMenuView" /\ current_view.selected = 0

-----------------------------------------------------------------------------
(* The key edge of a view switch: accepted frames of the loop across the menu
   and the game, with the escape and selection keys pressed and released *)

EdgeQueues ==
    {<<>>, <<KeyDown("key_escape")>>, <<KeyUp("key_escape")>>,
     <<KeyUp("key_escape"), KeyDown("key_escape")>>,
     <<KeyDown("key_space")>>, <<KeyUp("key_space"), KeyDown("key_space")>>,
     <<KeyDown("key_enter")>>}

EdgeNext == \E evs \in EdgeQueues, dt \in SwitchDts : SwitchStep(evs, dt, NoDraw)

SpecEdge == Init /\ [][EdgeNext]_vars

\* The queue evs holds a release of key k followed by a press of it: a press
\* separate from the one that holds the key down.
ReleasedThenPressed(evs, k) ==
    \E i, j \in 1..Len(evs) : i < j /\ evs[i] = KeyUp(k) /\ evs[j] = KeyDown(k)

\* C29: a key edge that causes a view switch is not seen by the new view.  The
\* frame after a switch renders the new view.  After an escape press in
\* gameplay has switched to the menu, the menu's first frame sees an escape
\* edge, and returns Quit, only if its own poll holds a release of escape and
\* a press after it; after a press of the fire key has started gameplay, the
\* first gameplay frame sees a fire edge, and adds a bullet, only if its own
\* poll holds a release of that key and a press after it.
C29_SwitchEdgeNotSeen ==
    [][(frame.action = "ChangeView" /\ nframes' = nframes + 1) =>
          /\ frame'.pre = frame.to
          /\ frame.pre.kind = "GameView" =>
                /\ frame.ev.now.key["key_escape"] = SnapTrue
                /\ frame'.pre.kind = "MainMenuView"
                /\ ~ReleasedThenPressed(poll'.evs, "key_escape") =>
                      /\ frame'.ev.now.key["key_escape"] # SnapTrue
                      /\ ~frame'.ev.now.quit => frame'.action # "Quit"
          /\ (frame.pre.kind = "MainMenuView"
                 /\ frame.ev.now.key["key_space"] = SnapTrue) =>
                /\ frame'.pre.kind = "GameView"
                /\ frame'.pre.bullets = <<>>
                /\ ~ReleasedThenPressed(poll'.evs, "key_space") =>
                      /\ frame'.ev.now.key["key_space"] # SnapTrue
                      /\ frame'.post.bullets = <<>>]_vars

\* C29 witness: escape was pressed in gameplay and is still held; the frame
\* before this one saw its edge and switched to the menu, and the menu's first
\* frame returns None and stays.
C29_Witness ==
    /\ nframes = 3
    /\ frame.pre = MainMenuView_with_backgrounds(BgSet_new)
    /\ poll.before.now.key["key_escape"] = SnapTrue
    /\ poll.evs = <<>> /\ events.held["key_escape"]
    /\ events.now.key["key_escape"] = SnapNone
    /\ frame.action = "None"
    /\ current_view.kind = "MainMenuView" /\ status = "running"

\* The first gameplay frame after the fire key started the game: the key is
\* held, and there is no bullet.
C29_NoBulletReached ==
    /\ nframes = 2
    /\ frame.pre.kind = "GameView"
    /\ poll.before.now.key["key_space"] = SnapTrue
    /\ poll.evs = <<>> /\ events.held["key_space"]
    /\ frame.action = "None"
    /\ current_view.kind = "GameView" /\ current_view.bullets = <<>>

\* A further, separate press of escape in the menu's first frame quits.
C29_SeparatePressReached ==
    /\ nframes = 3
    /\ frame.pre = MainMenuView_with_backgrounds(BgSet_new)
    /\ poll.before.now.key["key_escape"] = SnapTrue
    /\ poll.evs = <<KeyUp("key_escape"), KeyDown("key_escape")>>
    /\ frame.action = "Quit" /\ status = "quit"

-----------------------------------------------------------------------------
(* The snapshot and the held flag *)

\* C30: after any poll, for every key, a snapshot Some(true) implies that the
\* held flag is true and a snapshot Some(false) that it is false.
C30_SnapshotAgreesWithHeld ==
    \A k \in Keys :
        /\ events.now.key[k] = SnapTrue => events.held[k]
        /\ events.now.key[k] = SnapFalse => ~events.held[k]

\* C30 witness: a poll over a held key holds its release and then a press: the
\* snapshot went through Some(false) to Some(true) and the flag is true.
C30_Witness ==
    /\ npolls = 2
    /\ \E k \in PolledKeys :
          /\ poll.before.held[k]
          /\ poll.evs = <<KeyUp(k), KeyDown(k)>>
          /\ events.now.key[k] = SnapTrue /\ events.held[k]

\* A press and its release in one poll: Some(false), and the flag is false.
C30_ReleasedReached ==
    /\ npolls > 0
    /\ \E k \in PolledKeys :
          /\ poll.evs = <<KeyDown(k), KeyUp(k)>>
          /\ events.now.key[k] = SnapFalse /\ ~events.held[k]

-----------------------------------------------------------------------------
(* The elapsed values of the loop *)

\* C31: every elapsed value handed to a view is at least the frame interval
\* (16 ms), and the elapsed values of all accepted frames sum exactly to the
\* time between the loop's initial timestamp (0) and the timestamp of the last
\* accepted frame: the time of the waiting iterations is in the sum once.
C31_ElapsedSumsToClock ==
    /\ nframes > 0 => frame.elapsed >= 16
    /\ iter.kind = "frame" =>
          /\ iter.dt = frame.elapsed
          /\ iter.handed = iter.now - 0
    /\ iter.kind = "wait" =>
          iter.handed + iter.dt = iter.now - 0

\* C31 witness: three frames have been accepted with waiting iterations
\* between them, one of which overslept, so the last elapsed is more than the
\* interval; the sum handed to the views is the timestamp of the last frame.
C31_Witness ==
    /\ iter.kind = "frame" /\ nframes = 3
    /\ iter.seq > nframes
    /\ frame.elapsed > interval
    /\ iter.handed = iter.now /\ iter.handed > 3 * interval

-----------------------------------------------------------------------------
(* The player's rectangle within a frame *)

\* C32: in a gameplay frame the player is moved after the collision pass and
\* after the firing.  A frame that runs to its end tests the enemies against
\* the player's rectangle as the frame before left it (the rectangle of
\* Player::new, not yet clamped, in the first frame) and fires its bullets
\* from the cannon of that rectangle.
C32_PlayerMovesLast ==
    [][(nframes' = nframes + 1 /\ FrameDone') =>
          /\ frame'.pre.player = current_view.player
          /\ nframes = 0 =>
                \E size \in GameSizes : current_view.player = Player_new(size)
          /\ frame'.player_alive
                = ~\E i \in 1..Len(frame'.updated.trumps) :
                       overlaps(Trump_rect(frame'.updated.trumps[i]),
                                current_view.player.rect)
          /\ frame'.ev.now.key["key_space"] = SnapTrue =>
                LET fired == current_view'.bullets[Len(current_view'.bullets)]
                IN /\ Bullet_rect(fired).x
                         = current_view.player.rect.x + current_view.player.rect.w \div 2
                   /\ Bullet_rect(fired).y = current_view.player.rect.y]_vars

\* C32 witness: the window is made lower in a frame that fires; the frame moves
\* the player up onto an enemy, which goes untested against the player's new
\* place, and the bullet starts where the player was.
C32_Witness ==
    /\ FrameDone /\ FiredNow
    /\ frame.player_alive
    /\ \E i \in UpdatedTrumps :
          /\ ~OnPlayer(i)
          /\ overlaps(TrumpHitbox(i), current_view.player.rect)
    /\ Len(AdmittedBullets) = 1
    /\ Bullet_rect(AdmittedBullets[1]).y = frame.pre.player.rect.y
    /\ current_view.player.rect.y < frame.pre.player.rect.y

\* The first frame fires from the rectangle of Player::new, below the movable
\* region.
C32_FirstFrameReached ==
    /\ FrameDone /\ FiredNow /\ nframes = 1
    /\ frame.pre.player = Player_new(win)
    /\ ~FullyInside(frame.pre.player.rect, movable_region(win))
    /\ Bullet_rect(AdmittedBullets[1]).y = Player_new(win).rect.y

====
